---- MODULE Spec2Model ----
(***************************************************************************)
(* GridKey BESS optimizer: the data adapter, the MILP model builders       *)
(* (Model I, II, III, III-Renew), the feasible solutions of the models     *)
(* they build, the solution extractor and the MPC entry points.            *)
(*                                                                         *)
(* A state of the MILP part shows one step t of a feasible solution: the   *)
(* values of every decision variable indexed by t, the values of the       *)
(* block-indexed variables of t's block, and what the constraints that     *)
(* link t to t-1 need.  SolveStep extends a feasible prefix by one step,   *)
(* choosing the step's values on a grid, under every constraint the        *)
(* builders emit; the reachable states are the feasible solutions on the   *)
(* grid.                                                                   *)
(*                                                                         *)
(* Units.  Power: kW.  Capacity bids: kW (1000 * the MW value).  Energy:   *)
(* kWh * EnergyScale, which makes eta * p * dt and p / eta * dt integers.  *)
(* Prices: EUR/MWh and EUR/MW.  Money: see Money below.                    *)
(***************************************************************************)
EXTENDS Integers, Sequences, FiniteSets, TLC

(***************************************************************************)
(* Bounds of the model.                                                    *)
(***************************************************************************)
\* powers are chosen among the multiples of P_max / PowerLevels
PowerLevels == 1
\* horizons up to MaxHorizonHours hours are requested
MaxHorizonHours == 1
\* tables of up to ObjRows rows have the sums of their objective carried along
ObjRows == 2

(***************************************************************************)
(* Program constants.                                                      *)
(***************************************************************************)
TIMESTEPS_PER_HOUR == 4
TIMESTEPS_PER_BLOCK == 16
BLOCKS_PER_DAY == 6
\* battery_params
capacity_kwh == 4500
\* efficiency 0.95 = EtaNum / EtaDen
EtaNum == 19
EtaDen == 20
\* time_step_hours 0.25 = 1 / DtDen, reserve_duration_hours 0.25 = 1 / TauDen
DtDen == 4
TauDen == 4
\* min_bid_fcr, min_bid_afrr: 1.0 MW, in kW
min_bid_fcr == 1000
min_bid_afrr == 1000
\* max_as_ratio 0.8 = MaxAsRatioNum / MaxAsRatioDen
MaxAsRatioNum == 4
MaxAsRatioDen == 5
\* lifo_epsilon_kwh 5.0
lifo_epsilon_kwh == 5

\* kWh * EnergyScale is the unit of energy
EnergyScale == EtaNum * EtaDen * DtDen

\* values a cell of an input array or of the DataFrame can hold: Python's
\* None, float('nan'), a number; an optional list is None or Some(list)
None == [kind |-> "none"]
NaN == [kind |-> "nan"]
Num(x) == [kind |-> "num", val |-> x]
Some(x) == [kind |-> "some", val |-> x]
isna(x) == x.kind = "nan"

Binary == {0, 1}

Min(a, b) == IF a <= b THEN a ELSE b
Max(a, b) == IF a >= b THEN a ELSE b

RECURSIVE SumSeq(_)
SumSeq(s) == IF s = <<>> THEN 0 ELSE Head(s) + SumSeq(Tail(s))


(***************************************************************************)
(* Inputs.  A request is what OptimizerService.optimize receives; the      *)
(* price arrays cover MaxHorizonHours hours, whatever horizon is asked.    *)
(***************************************************************************)
MaxTimesteps == MaxHorizonHours * TIMESTEPS_PER_HOUR

\* day-ahead prices (EUR/MWh), repeated over the horizon
DaPricePattern == <<20, 100, -10, 60>>
\* aFRR energy prices as the price service sends them: null, 0 or a price
AfrrPosEnergyPattern == <<None, Num(0), Num(50)>>
AfrrNegEnergyPattern == <<Num(40), None, Num(40), Num(0)>>
\* how far the patterns are rotated
PriceShifts == {0}
\* capacity prices per 4-hour block (EUR/MW)
FcrBlockPrices == <<120>>
AfrrPosBlockPrices == <<80>>
AfrrNegBlockPrices == <<60>>

Cycle(pattern, shift, n) ==
    [i \in 1..n |-> pattern[((i - 1 + shift) % Len(pattern)) + 1]]

MarketPrices(shift, n) ==
    [day_ahead         |-> Cycle(DaPricePattern, 0, n),
     afrr_energy_pos   |-> Cycle(AfrrPosEnergyPattern, shift, n),
     afrr_energy_neg   |-> Cycle(AfrrNegEnergyPattern, shift, n),
     fcr               |-> FcrBlockPrices,
     afrr_capacity_pos |-> AfrrPosBlockPrices,
     afrr_capacity_neg |-> AfrrNegBlockPrices]

\* market_prices with every price 0
ZeroPrices(n) ==
    [day_ahead         |-> [i \in 1..n |-> 0],
     afrr_energy_pos   |-> [i \in 1..n |-> Num(0)],
     afrr_energy_neg   |-> [i \in 1..n |-> Num(0)],
     fcr               |-> <<0>>,
     afrr_capacity_pos |-> <<0>>,
     afrr_capacity_neg |-> <<0>>]

VARIABLES
    pc,             \* position in OptimizerService.optimize
    request,        \* the arguments of the call
    battery_params, \* the optimizer's battery_params
    optimizer,      \* the other attributes of the optimizer that are read or
                    \* written: max_as_ratio, _block_to_times, _day_to_times
    opt_input,      \* OptimizationInput built by adapt
    country_data,   \* DataFrame built by to_country_data
    model,          \* parameters of the built Pyomo model
    t,              \* step of the solution the state shows (-1: none yet)
    sol,            \* values of the t-indexed variables at step t
    blk,            \* values of the block-indexed variables of t's block
    day_dis,        \* sums of p_dis and of p_total_dis over t's day so far
    totals,         \* the expressions of the objective on steps t0..t
    mpc,            \* the MPC entry point called, and what it has returned
    run             \* the solver's surroundings and what solve_model,
                    \* extract_solution and _build_result have returned

vars == <<pc, request, battery_params, optimizer, opt_input, country_data, model,
          t, sol, blk, day_dis, totals, mpc, run>>

\* daily_cycle_limit of a call, as a fraction: the default 1.0, and 0.25
OneCycle == [num |-> 1, den |-> 1]
QuarterCycle == [num |-> 1, den |-> 4]
DailyCycleLimits == {Some(OneCycle), Some(QuarterCycle)}

\* c_rate of a call, as a fraction: the default 0.5, and 0.25
CRate == [num |-> 1, den |-> 2]
QuarterRate == [num |-> 1, den |-> 4]
\* P_max_config = c_rate * capacity_kwh
P_max_config == (request.c_rate.num * capacity_kwh) \div request.c_rate.den
\* the grid the powers are chosen on
PowerQuantum == P_max_config \div PowerLevels
PowerGrid == {k * PowerQuantum : k \in 0..PowerLevels}
\* candidate capacity bids (kW): nothing, below the minimum bid, the minimum
\* bid, the max_as_ratio cap, the whole rating
CapacityGrid ==
    {0, min_bid_fcr \div 2, min_bid_fcr,
     (MaxAsRatioNum * P_max_config) \div MaxAsRatioDen, P_max_config}

\* forecasts of the weather service (kW): none, all NaN, or some generation
GenerationForecasts ==
    {None,
     Some([i \in 1..MaxTimesteps |-> NaN]),
     Some([i \in 1..MaxTimesteps |->
        IF i % 3 = 0 THEN NaN
        ELSE IF i % 3 = 1
             THEN Num((CRate.num * capacity_kwh)
                         \div (CRate.den * PowerLevels))
             ELSE Num(0)])}

\* energy in kWh * EnergyScale
E_nom == capacity_kwh * EnergyScale
\* battery_params soc_min, soc_max (fractions of capacity)
soc_min == 0
soc_max == 1
InitialSocPcts == {0, 50, 100}

(***************************************************************************)
(* DataAdapter                                                             *)
(***************************************************************************)
\* [float('nan') if p is None else float(p) for p in prices]
_extract_15min_prices(market_prices, key) ==
    [i \in 1..Len(market_prices[key]) |->
        IF market_prices[key][i].kind = "none" THEN NaN
        ELSE market_prices[key][i]]

_extract_block_prices(market_prices, key) == market_prices[key]

\* the 'generation_kw' list of the forecast
_extract_generation(forecast) == forecast.val

\* OptimizerService._load_battery_config, the battery_config of every call
_load_battery_config ==
    [capacity_kwh |-> 4472, c_rate |-> CRate, efficiency_pct |-> 95,
     initial_soc_pct |-> 50]

\* what a call leaves in place of its result when it raises
Raised(error) == [kind |-> "raise", error |-> error]

\* prices = market_prices.get(key, []); if not prices: raise ValueError
adapt_error(req) ==
    IF \E key \in {"day_ahead", "afrr_energy_pos", "afrr_energy_neg", "fcr",
                   "afrr_capacity_pos", "afrr_capacity_neg"} :
          \/ key \notin DOMAIN req.market_prices
          \/ req.market_prices[key] = <<>>
    THEN "ValueError" ELSE ""

\* len(values[:n])
slice_len(len, n) == IF n >= 0 THEN Min(len, n) ELSE Max(len + n, 0)

\* ValueError for every array that is not of the length of the horizon
StrictLengths(inp) ==
    LET n_timesteps == inp.time_horizon_hours * TIMESTEPS_PER_HOUR
    IN  IF \/ Len(inp.da_prices) /= n_timesteps
           \/ Len(inp.afrr_energy_pos) /= n_timesteps
           \/ Len(inp.afrr_energy_neg) /= n_timesteps
           \/ Len(inp.fcr_prices) * TIMESTEPS_PER_BLOCK /= n_timesteps
           \/ Len(inp.afrr_capacity_pos) * TIMESTEPS_PER_BLOCK /= n_timesteps
           \/ Len(inp.afrr_capacity_neg) * TIMESTEPS_PER_BLOCK /= n_timesteps
        THEN "ValueError" ELSE ""

\* the exception to_country_data ends with: pandas raises ValueError when a
\* column is assigned a list whose length is not the number of rows, and
\* df['day_of_year'].iloc[0] raises IndexError on a table of no rows
to_country_data_error(inp) ==
    LET n_timesteps == inp.time_horizon_hours * TIMESTEPS_PER_HOUR
        rows == Max(n_timesteps, 0)
        expanded(block_prices) ==
            slice_len(Max(Len(block_prices) * TIMESTEPS_PER_BLOCK, n_timesteps),
                      n_timesteps)
    IN  IF \/ slice_len(Len(inp.da_prices), n_timesteps) /= rows
           \/ slice_len(Len(inp.afrr_energy_pos), n_timesteps) /= rows
           \/ slice_len(Len(inp.afrr_energy_neg), n_timesteps) /= rows
           \/ expanded(inp.fcr_prices) /= rows
           \/ expanded(inp.afrr_capacity_pos) /= rows
           \/ expanded(inp.afrr_capacity_neg) /= rows
        THEN "ValueError"
        ELSE IF rows = 0 THEN "IndexError"
        ELSE IF /\ inp.renewable_generation.kind /= "none"
                /\ slice_len(Len(inp.renewable_generation.val), n_timesteps)
                      /= rows
        THEN "ValueError"
        ELSE ""

\* DataAdapter.adapt, then the two assignments OptimizerService.optimize
\* makes on its result
adapt(req) ==
    [time_horizon_hours   |-> req.time_horizon_hours,
     da_prices            |-> req.market_prices.day_ahead,
     afrr_energy_pos      |-> _extract_15min_prices(req.market_prices, "afrr_energy_pos"),
     afrr_energy_neg      |-> _extract_15min_prices(req.market_prices, "afrr_energy_neg"),
     fcr_prices           |-> _extract_block_prices(req.market_prices, "fcr"),
     afrr_capacity_pos    |-> _extract_block_prices(req.market_prices, "afrr_capacity_pos"),
     afrr_capacity_neg    |-> _extract_block_prices(req.market_prices, "afrr_capacity_neg"),
     renewable_generation |->
        IF req.generation_forecast.kind = "none" THEN None
        ELSE Some(_extract_generation(req.generation_forecast)),
     battery_capacity_kwh |-> _load_battery_config.capacity_kwh,
     c_rate               |-> req.c_rate,
     initial_soc_pct      |-> _load_battery_config.initial_soc_pct,
     model_type           |-> req.model_type,
     alpha                |-> req.alpha]

\* class ModelType
ModelTypes == {"I", "II", "III", "III-renew"}

\* the exception optimize ends with before to_country_data: that of adapt,
\* with the ValidationError of OptimizationInput for a c_rate that is not
\* positive; that of ModelType(model_type); that of the constructor
\* _get_optimizer calls, which validates alpha in Models II and III
optimize_error(req) ==
    IF adapt_error(req) /= "" THEN adapt_error(req)
    ELSE IF req.c_rate.num <= 0 THEN "ValidationError"
    ELSE IF req.model_type \notin ModelTypes THEN "ValueError"
    ELSE IF req.model_type /= "I" /\ req.alpha < 0 THEN "ValueError"
    ELSE ""

\* each block price repeated TIMESTEPS_PER_BLOCK times, the last one
\* forward-filled, cut at n_timesteps
_expand_block_prices(block_prices, n_timesteps) ==
    [i \in 1..n_timesteps |->
        block_prices[Min(((i - 1) \div TIMESTEPS_PER_BLOCK) + 1, Len(block_prices))]]

\* the column left as it is
KeepZeroPrices(column) == column

\* Series.replace(0, np.nan)
ReplaceZeroByNaN(column) ==
    [i \in 1..Len(column) |-> IF column[i] = Num(0) THEN NaN ELSE column[i]]

\* timestamps start at 2024-01-01 00:00: step i (from 0) is in hour i \div 4
\* of day 1
HourOf(i) == (i \div TIMESTEPS_PER_HOUR) % 24
DayOfYearOf(i) == 1 + ((i \div TIMESTEPS_PER_HOUR) \div 24)

to_country_data(inp) ==
    LET n_timesteps == inp.time_horizon_hours * TIMESTEPS_PER_HOUR
        base ==
          [n_rows                |-> n_timesteps,
           price_day_ahead       |-> SubSeq(inp.da_prices, 1, n_timesteps),
           price_afrr_energy_pos |->
              ReplaceZeroByNaN(SubSeq(inp.afrr_energy_pos, 1, n_timesteps)),
           price_afrr_energy_neg |->
              ReplaceZeroByNaN(SubSeq(inp.afrr_energy_neg, 1, n_timesteps)),
           price_fcr      |-> _expand_block_prices(inp.fcr_prices, n_timesteps),
           price_afrr_pos |-> _expand_block_prices(inp.afrr_capacity_pos, n_timesteps),
           price_afrr_neg |-> _expand_block_prices(inp.afrr_capacity_neg, n_timesteps),
           w_afrr_pos     |-> [i \in 1..n_timesteps |-> 1],
           w_afrr_neg     |-> [i \in 1..n_timesteps |-> 1],
           day_id         |-> [i \in 1..n_timesteps |-> DayOfYearOf(i - 1)],
           block_id       |->
              [i \in 1..n_timesteps |->
                 (DayOfYearOf(i - 1) - DayOfYearOf(0)) * BLOCKS_PER_DAY
                 + (HourOf(i - 1) \div 4)],
           p_renewable_forecast_kw |-> None]
    IN  IF inp.renewable_generation.kind /= "none"
        THEN [base EXCEPT !.p_renewable_forecast_kw =
                 Some(SubSeq(inp.renewable_generation.val, 1, n_timesteps))]
        ELSE base

(***************************************************************************)
(* BESSOptimizerModelI.build_optimization_model: sets and parameters       *)
(***************************************************************************)
\* eta_ch * p * dt and p / eta_dis * dt for p = 1 kW, in energy units
ChargeGain == (EtaNum * EnergyScale) \div (EtaDen * DtDen)
DischargeDrain == (EtaDen * EnergyScale) \div (EtaNum * DtDen)
\* 1 kW * tau / eta_dis and 1 kW * tau * eta_ch, in energy units
ReserveDrain == (EtaDen * EnergyScale) \div (EtaNum * TauDen)
ReserveGain == (EtaNum * EnergyScale) \div (EtaDen * TauDen)

\* price if not isna(price) else 0
PriceOrZero(cell) == IF isna(cell) THEN 0 ELSE cell.val

\* first row (from 1) of the table that lies in block b
FirstRowOfBlock(cd, b) ==
    CHOOSE i \in 1..cd.n_rows :
        /\ cd.block_id[i] = b
        /\ \A k \in 1..(i - 1) : cd.block_id[k] /= b

BlocksOf(cd) == {cd.block_id[i] : i \in 1..cd.n_rows}

BuildModelI(cd, bp, daily_cycle_limit) ==
    [variant      |-> "I",
     T            |-> cd.n_rows,
     E_soc_init   |-> (bp.initial_soc_pct * capacity_kwh * EnergyScale) \div 100,
     N_cycles     |-> daily_cycle_limit,
     max_as_ratio |-> IF optimizer.max_as_ratio.kind = "none"
                      THEN [num |-> MaxAsRatioNum, den |-> MaxAsRatioDen]
                      ELSE optimizer.max_as_ratio.val,
     block_map    |-> cd.block_id,
     day_map      |-> cd.day_id,
     P_DA         |-> cd.price_day_ahead,
     P_aFRR_E_pos |-> [i \in 1..cd.n_rows |-> PriceOrZero(cd.price_afrr_energy_pos[i])],
     P_aFRR_E_neg |-> [i \in 1..cd.n_rows |-> PriceOrZero(cd.price_afrr_energy_neg[i])],
     w_aFRR_pos   |-> cd.w_afrr_pos,
     w_aFRR_neg   |-> cd.w_afrr_neg,
     P_FCR        |-> [b \in BlocksOf(cd) |-> cd.price_fcr[FirstRowOfBlock(cd, b)]],
     P_aFRR_pos   |-> [b \in BlocksOf(cd) |-> cd.price_afrr_pos[FirstRowOfBlock(cd, b)]],
     P_aFRR_neg   |-> [b \in BlocksOf(cd) |-> cd.price_afrr_neg[FirstRowOfBlock(cd, b)]],
     P_renewable  |-> <<>>,
     alpha        |-> 0,
     vars         |-> {"p_ch", "p_dis", "e_soc", "p_afrr_pos_e", "p_afrr_neg_e",
                       "p_total_ch", "p_total_dis", "c_fcr", "c_afrr_pos",
                       "c_afrr_neg", "y_total_ch", "y_total_dis", "y_fcr",
                       "y_afrr_pos", "y_afrr_neg"}]

(***************************************************************************)
(* Constraints of Model I.  Each rule is given the values of the variables *)
(* it reads; i is the row (from 1) of step t = i - 1.                      *)
(***************************************************************************)
\* Cst-0
no_bid_if_no_afrr_pos_activation_rule(i, p_afrr_pos_e) ==
    IF isna(country_data.price_afrr_energy_pos[i]) THEN p_afrr_pos_e = 0
    ELSE TRUE

no_bid_if_no_afrr_neg_activation_rule(i, p_afrr_neg_e) ==
    IF isna(country_data.price_afrr_energy_neg[i]) THEN p_afrr_neg_e = 0
    ELSE TRUE

total_ch_def_rule(p_total_ch, p_ch, p_afrr_neg_e) ==
    p_total_ch = p_ch + p_afrr_neg_e

total_dis_def_rule(p_total_dis, p_dis, p_afrr_pos_e) ==
    p_total_dis = p_dis + p_afrr_pos_e

\* the dynamics without the initial SOC at the first step
StartsFromPrevious(i, e_soc_prev, p_total_ch, p_total_dis) ==
    e_soc_prev + (ChargeGain * p_total_ch - DischargeDrain * p_total_dis)

\* Cst-1: the value the rule gives e_soc[t]
soc_dynamics_rule(i, e_soc_prev, p_total_ch, p_total_dis) ==
    (IF i = 1 THEN model.E_soc_init ELSE e_soc_prev)
    + (ChargeGain * p_total_ch - DischargeDrain * p_total_dis)

\* Cst-2: the bounds of the variable e_soc
e_soc_bounds(e_soc) ==
    /\ soc_min * E_nom <= e_soc
    /\ e_soc <= soc_max * E_nom

\* Cst-3
total_ch_binary_rule(p_total_ch, y_total_ch) ==
    p_total_ch <= y_total_ch * P_max_config

total_dis_binary_rule(p_total_dis, y_total_dis) ==
    p_total_dis <= y_total_dis * P_max_config

\* both binaries may be 1
BothDirections(y_total_ch, y_total_dis) == y_total_ch + y_total_dis <= 2

no_simultaneous_rule(y_total_ch, y_total_dis) ==
    y_total_ch + y_total_dis <= 1

\* Cst-4 (capacity bids are in kW here: 1000 * c)
power_dis_reserve_limit_rule(p_total_dis, b) ==
    p_total_dis + b.c_fcr + b.c_afrr_pos <= P_max_config

power_ch_reserve_limit_rule(p_total_ch, b) ==
    p_total_ch + b.c_fcr + b.c_afrr_neg <= P_max_config

\* Cst-5, on the day's discharge so far: the sum runs over p_dis
daily_cycle_rule(N_cycles, sum_p_dis) ==
    N_cycles.den * DischargeDrain * sum_p_dis <= N_cycles.num * E_nom

\* Cst-6
energy_reserve_pos_rule(e_soc, b) ==
    ReserveDrain * (b.c_fcr + b.c_afrr_pos) <= e_soc - soc_min * E_nom

energy_reserve_neg_rule(e_soc, b) ==
    ReserveGain * (b.c_fcr + b.c_afrr_neg) <= soc_max * E_nom - e_soc

\* Cst-7
as_market_exclusivity_rule(b) ==
    b.y_fcr + b.y_afrr_pos + b.y_afrr_neg <= 1

\* Cst-11
\* no cap on the total reservation
NoReservationCap(b) == TRUE

max_as_reservation_rule(b) ==
    model.max_as_ratio.den * (b.c_fcr + b.c_afrr_pos + b.c_afrr_neg)
        <= model.max_as_ratio.num * P_max_config

\* Cst-8
\* discharging next to a reserve that charges
DischargeBesideReserve(y_total_dis, b) ==
    y_total_dis + b.y_fcr + b.y_afrr_neg <= 2

cross_market_exclusivity_rule_1(y_total_dis, b) ==
    y_total_dis + b.y_fcr + b.y_afrr_neg <= 1

cross_market_exclusivity_rule_2(y_total_ch, b) ==
    y_total_ch + b.y_fcr + b.y_afrr_pos <= 1

\* Cst-9
\* any positive FCR bid, however small
NoMinimumBid(b) == b.c_fcr >= 0

fcr_min_bid_rule(b) == b.c_fcr >= b.y_fcr * min_bid_fcr
fcr_max_bid_rule(b) == b.c_fcr <= b.y_fcr * P_max_config
afrr_pos_min_bid_rule(b) == b.c_afrr_pos >= b.y_afrr_pos * min_bid_afrr
afrr_pos_max_bid_rule(b) == b.c_afrr_pos <= b.y_afrr_pos * P_max_config
afrr_neg_min_bid_rule(b) == b.c_afrr_neg >= b.y_afrr_neg * min_bid_afrr
afrr_neg_max_bid_rule(b) == b.c_afrr_neg <= b.y_afrr_neg * P_max_config

(***************************************************************************)
(* BESSOptimizerModelII: segments and cyclic aging                         *)
(***************************************************************************)
\* cyclic_aging costs of the aging configuration, one per segment, in
\* EUR/kWh * 1000
MarginalCosts == <<20, 50>>

num_segments == Len(MarginalCosts)
J == 1..num_segments
\* segment_capacity = capacity_kwh / num_segments, in energy units
E_seg == E_nom \div num_segments
\* lifo_epsilon_kwh in energy units
Epsilon == lifo_epsilon_kwh * EnergyScale

BuildModelII(cd, bp, alpha) ==
    LET m == BuildModelI(cd, bp, None)
    IN  [m EXCEPT !.variant = "II", !.alpha = alpha,
                  !.vars = (m.vars \ {"e_soc"})
                           \cup {"p_ch_j", "p_dis_j", "e_soc_j",
                                 "z_segment_active"}]

\* Cst-6 redefined on the expression e_soc
energy_reserve_pos_rule_v2(e_soc, b) ==
    ReserveDrain * (b.c_fcr + b.c_afrr_pos) <= e_soc - soc_min * E_nom

energy_reserve_neg_rule_v2(e_soc, b) ==
    ReserveGain * (b.c_fcr + b.c_afrr_neg) <= soc_max * E_nom - e_soc

\* segments that may charge more than the total
SegmentsExceedTotal(p_total_ch, p_ch_j) == p_total_ch <= SumSeq(p_ch_j)

total_charge_power_rule(p_total_ch, p_ch_j) == p_total_ch = SumSeq(p_ch_j)

total_discharge_power_rule(p_total_dis, p_dis_j) ==
    p_total_dis = SumSeq(p_dis_j)

\* the initial energy spread evenly over the segments
EvenFill(j) == model.E_soc_init \div num_segments

\* min(E_seg, max(0, E_soc_init - (j - 1) * E_seg))
initial_segment_soc(j) ==
    Min(E_seg, Max(0, model.E_soc_init - E_seg * (j - 1)))

\* the value the rule gives e_soc_j[t, j]
segment_soc_dynamics_rule(i, j, e_soc_j_prev, p_ch_j, p_dis_j) ==
    (IF i = 1 THEN initial_segment_soc(j) ELSE e_soc_j_prev[j])
    + (ChargeGain * p_ch_j[j] - DischargeDrain * p_dis_j[j])

\* e_soc_j bounded above only
UpperBoundOnly(e_soc_j, j) == e_soc_j[j] <= E_seg

\* bounds of the variable e_soc_j
e_soc_j_bounds(e_soc_j, j) == 0 <= e_soc_j[j] /\ e_soc_j[j] <= E_seg

stacked_tank_rule(e_soc_j, j) ==
    IF j = num_segments THEN TRUE ELSE e_soc_j[j] >= e_soc_j[j + 1]

segment_activation_upper_rule(e_soc_j, z, j) == e_soc_j[j] <= E_seg * z[j]

\* no fullness prerequisite
AnySegmentOrder(e_soc_j, z, j) == TRUE

segment_lifo_fullness_rule(e_soc_j, z, j) ==
    IF j = 1 THEN TRUE ELSE e_soc_j[j - 1] >= (E_seg - Epsilon) * z[j]

segment_charge_activation_rule(p_ch_j, z, j) ==
    p_ch_j[j] <= P_max_config * z[j]

segment_discharge_activation_rule(p_dis_j, z, j) ==
    p_dis_j[j] <= P_max_config * z[j]

\* e_soc_j[t, .] as the dynamics give it from the segment powers
SegmentSoc(i, e_soc_j_prev, p_ch_j, p_dis_j) ==
    [j \in J |-> segment_soc_dynamics_rule(i, j, e_soc_j_prev, p_ch_j, p_dis_j)]

\* the segment variables of row i under the constraints of Model II
SegmentSide(i, e_soc_j_prev, p_total_ch, p_total_dis) ==
    {g \in [p_ch_j : {f \in [J -> PowerGrid] :
                         total_charge_power_rule(p_total_ch, f)},
            p_dis_j : {f \in [J -> PowerGrid] :
                         total_discharge_power_rule(p_total_dis, f)},
            z_segment_active : [J -> Binary]] :
        /\ LET e_soc_j == SegmentSoc(i, e_soc_j_prev, g.p_ch_j, g.p_dis_j)
           IN  \A j \in J :
                 /\ e_soc_j_bounds(e_soc_j, j)
                 /\ stacked_tank_rule(e_soc_j, j)
                 /\ segment_activation_upper_rule(e_soc_j, g.z_segment_active, j)
                 /\ segment_lifo_fullness_rule(e_soc_j, g.z_segment_active, j)
                 /\ segment_charge_activation_rule(g.p_ch_j, g.z_segment_active, j)
                 /\ segment_discharge_activation_rule(g.p_dis_j, g.z_segment_active, j)}

(***************************************************************************)
(* BESSOptimizerModelIII: calendar aging by SOS2 interpolation             *)
(***************************************************************************)
\* calendar_aging breakpoints of the aging configuration: SOC in percent of
\* the capacity, cost in EUR/hr
SocBreakpointPcts == <<0, 50, 100>>
CostBreakpoints == <<0, 1, 5>>

num_breakpoints == Len(SocBreakpointPcts)
I == 1..num_breakpoints
\* soc_breakpoints_kwh in energy units
SOC_point == [k \in I |-> (SocBreakpointPcts[k] * E_nom) \div 100]
Cost_point == CostBreakpoints

\* every energy of the model is a multiple of EnergyQuantum; the weights
\* lambda_cal are numerators over LambdaDen
EnergyQuantum == PowerQuantum
Red(e) == e \div EnergyQuantum
LambdaDen == Red(SOC_point[num_breakpoints] - SOC_point[1])

BuildModelIII(cd, bp, alpha) ==
    LET m == BuildModelII(cd, bp, alpha)
    IN  [m EXCEPT !.variant = "III",
                  !.vars = m.vars \cup {"lambda_cal", "c_cal_cost"}]

\* bounds (0, 1) of lambda_cal
lambda_cal_bounds(lam) == \A k \in I : 0 <= lam[k] /\ lam[k] <= LambdaDen

calendar_soc_rule(lam, e_soc_j) ==
    SumSeq([k \in I |-> lam[k] * Red(SOC_point[k])])
        = Red(SumSeq(e_soc_j)) * LambdaDen

\* the value the rule gives c_cal_cost[t], over LambdaDen
calendar_cost_rule(lam) == SumSeq([k \in I |-> lam[k] * Cost_point[k]])

calendar_sos2_sum_rule(lam) == SumSeq(lam) = LambdaDen

\* weights free of the special ordered set
AnySupport(lam) == lam \in [I -> Int]

\* SOSConstraint(sos=2): at most two non-zero, and those adjacent
calendar_sos2_set(lam) ==
    \A a, b \in I : (a < b /\ lam[a] /= 0 /\ lam[b] /= 0) => b = a + 1

\* weights on the breakpoints a and b alone that interpolate e
TwoPointWeights(a, b, e) ==
    LET span == Red(SOC_point[b] - SOC_point[a])
        num_a == (Red(SOC_point[b] - e) * LambdaDen) \div span
    IN  [k \in I |-> IF k = a THEN num_a
                     ELSE IF k = b THEN LambdaDen - num_a ELSE 0]

\* candidate weight vectors: two-point interpolations (adjacent or not), one
\* whole breakpoint, nothing
LambdaCandidates(e) ==
    {TwoPointWeights(q[1], q[2], e) : q \in {x \in I \X I : x[1] < x[2]}}
    \cup {[k \in I |-> IF k = a THEN LambdaDen ELSE 0] : a \in I}
    \cup {[k \in I |-> 0]}

CalendarSide(e_soc_j) ==
    {lam \in LambdaCandidates(SumSeq(e_soc_j)) :
        /\ lambda_cal_bounds(lam)
        /\ calendar_soc_rule(lam, e_soc_j)
        /\ calendar_sos2_sum_rule(lam)
        /\ calendar_sos2_set(lam)
        /\ calendar_cost_rule(lam) >= 0}

(***************************************************************************)
(* BESSOptimizerModelIIIRenew: renewable self-consumption, export,         *)
(* curtailment                                                             *)
(***************************************************************************)
\* 'p_renewable_forecast_kw' in columns and not column.isna().all()
has_renewable(cd) ==
    /\ cd.p_renewable_forecast_kw.kind /= "none"
    /\ ~ (\A k \in 1..cd.n_rows : isna(cd.p_renewable_forecast_kw.val[k]))

BuildModelIIIRenew(cd, bp, alpha) ==
    LET m == BuildModelIII(cd, bp, alpha)
    IN  IF ~ has_renewable(cd) THEN m
        ELSE [m EXCEPT
                !.variant = "III-renew",
                !.P_renewable =
                    [k \in 1..cd.n_rows |->
                        PriceOrZero(cd.p_renewable_forecast_kw.val[k])],
                !.vars = m.vars \cup {"p_renewable_self", "p_renewable_export",
                                      "p_renewable_curtail"}]

\* renewable power that need not be allocated in full
BalanceAtMost(i, p_self, p_export, p_curtail) ==
    p_self + p_export + p_curtail <= model.P_renewable[i]

renewable_balance_rule(i, p_self, p_export, p_curtail) ==
    p_self + p_export + p_curtail = model.P_renewable[i]

total_ch_def_renew_rule(p_total_ch, p_ch, p_afrr_neg_e, p_renewable_self) ==
    p_total_ch = p_ch + p_afrr_neg_e + p_renewable_self

\* the renewable variables of row i; none in the other models
RenewableSide(i) ==
    IF "p_renewable_self" \notin model.vars
    THEN {[p_renewable_self |-> 0, p_renewable_export |-> 0,
           p_renewable_curtail |-> 0]}
    ELSE {r \in [p_renewable_self : PowerGrid, p_renewable_export : PowerGrid,
                 p_renewable_curtail : PowerGrid] :
            renewable_balance_rule(i, r.p_renewable_self,
                                   r.p_renewable_export,
                                   r.p_renewable_curtail)}

(***************************************************************************)
(* The feasible values of one step                                         *)
(***************************************************************************)
\* the block-indexed variables under the constraints indexed by block alone
BlockChoices ==
    {b \in [c_fcr : CapacityGrid, c_afrr_pos : CapacityGrid,
            c_afrr_neg : CapacityGrid,
            y_fcr : Binary, y_afrr_pos : Binary, y_afrr_neg : Binary] :
        /\ as_market_exclusivity_rule(b)
        /\ model.max_as_ratio.num < model.max_as_ratio.den =>
              max_as_reservation_rule(b)
        /\ fcr_min_bid_rule(b) /\ fcr_max_bid_rule(b)
        /\ afrr_pos_min_bid_rule(b) /\ afrr_pos_max_bid_rule(b)
        /\ afrr_neg_min_bid_rule(b) /\ afrr_neg_max_bid_rule(b)}

\* model.total_ch_def: Model I's rule, replaced in Model III-Renew
total_ch_def(p_total_ch, p_ch, p_afrr_neg_e, p_renewable_self) ==
    IF "p_renewable_self" \in model.vars
    THEN total_ch_def_renew_rule(p_total_ch, p_ch, p_afrr_neg_e,
                                 p_renewable_self)
    ELSE total_ch_def_rule(p_total_ch, p_ch, p_afrr_neg_e)

\* the charging side of row i, given the renewable variables
ChargeSide(i, r) ==
    {c \in [p_ch : PowerGrid, p_afrr_neg_e : PowerGrid,
            p_total_ch : PowerGrid, y_total_ch : Binary] :
        /\ no_bid_if_no_afrr_neg_activation_rule(i, c.p_afrr_neg_e)
        /\ total_ch_def(c.p_total_ch, c.p_ch, c.p_afrr_neg_e,
                        r.p_renewable_self)
        /\ total_ch_binary_rule(c.p_total_ch, c.y_total_ch)}

\* the discharging side of row i
DischargeSide(i) ==
    {d \in [p_dis : PowerGrid, p_afrr_pos_e : PowerGrid,
            p_total_dis : PowerGrid, y_total_dis : Binary] :
        /\ no_bid_if_no_afrr_pos_activation_rule(i, d.p_afrr_pos_e)
        /\ total_dis_def_rule(d.p_total_dis, d.p_dis, d.p_afrr_pos_e)
        /\ total_dis_binary_rule(d.p_total_dis, d.y_total_dis)}

\* Cst-6: Model I's rules, redefined in Model II
energy_reserve(e_soc, b) ==
    IF "e_soc" \in model.vars
    THEN energy_reserve_pos_rule(e_soc, b) /\ energy_reserve_neg_rule(e_soc, b)
    ELSE energy_reserve_pos_rule_v2(e_soc, b)
         /\ energy_reserve_neg_rule_v2(e_soc, b)

\* the state of charge by the dynamics alone: no bounds, no Cst-6
SocUnbounded(i, c, d, b, sum_p_dis) ==
    IF "e_soc" \in model.vars
    THEN {[e_soc |-> soc_dynamics_rule(i, sol.e_soc, c.p_total_ch,
                                       d.p_total_dis),
           p_ch_j |-> <<>>, p_dis_j |-> <<>>, e_soc_j |-> <<>>,
           z_segment_active |-> <<>>]}
    ELSE {[e_soc |-> SumSeq(SegmentSoc(i, sol.e_soc_j, x.p_ch_j, x.p_dis_j)),
           p_ch_j |-> x.p_ch_j, p_dis_j |-> x.p_dis_j,
           e_soc_j |-> SegmentSoc(i, sol.e_soc_j, x.p_ch_j, x.p_dis_j),
           z_segment_active |-> x.z_segment_active] :
             x \in SegmentSide(i, sol.e_soc_j, c.p_total_ch, d.p_total_dis)}

\* the state of charge of row i: the variable e_soc of Model I under Cst-1,
\* Cst-2 and Cst-5, or the segments of Model II and the expression e_soc;
\* under Cst-6 in both
SocSide(i, c, d, b, sum_p_dis) ==
    IF "e_soc" \in model.vars
    THEN {g \in {[e_soc |-> soc_dynamics_rule(i, sol.e_soc, c.p_total_ch,
                                              d.p_total_dis),
                  p_ch_j |-> <<>>, p_dis_j |-> <<>>, e_soc_j |-> <<>>,
                  z_segment_active |-> <<>>]} :
            /\ e_soc_bounds(g.e_soc)
            /\ model.N_cycles.kind /= "none" =>
                  daily_cycle_rule(model.N_cycles.val, sum_p_dis)
            /\ energy_reserve(g.e_soc, b)}
    ELSE {g \in {[e_soc |-> SumSeq(SegmentSoc(i, sol.e_soc_j, x.p_ch_j,
                                              x.p_dis_j)),
                  p_ch_j |-> x.p_ch_j, p_dis_j |-> x.p_dis_j,
                  e_soc_j |-> SegmentSoc(i, sol.e_soc_j, x.p_ch_j, x.p_dis_j),
                  z_segment_active |-> x.z_segment_active] :
                    x \in SegmentSide(i, sol.e_soc_j, c.p_total_ch,
                                      d.p_total_dis)} :
            energy_reserve(g.e_soc, b)}

\* the calendar variables of row i; none before Model III
CalendarChoices(g) ==
    IF "lambda_cal" \in model.vars THEN CalendarSide(g.e_soc_j) ELSE {<<>>}

\* an optimizer as its constructor leaves it: no max_as_ratio attribute,
\* empty mappings
NewOptimizer ==
    [max_as_ratio |-> None, _block_to_times |-> <<>>, _day_to_times |-> <<>>]

\* a day before its first step
NoDay == [p_dis |-> 0, p_total_dis |-> 0]

\* a solution before its first step
NoStep ==
    [p_ch |-> 0, p_dis |-> 0, p_afrr_pos_e |-> 0, p_afrr_neg_e |-> 0,
     p_total_ch |-> 0, p_total_dis |-> 0, y_total_ch |-> 0, y_total_dis |-> 0,
     e_soc |-> 0, p_ch_j |-> <<>>, p_dis_j |-> <<>>, e_soc_j |-> <<>>,
     z_segment_active |-> <<>>, lambda_cal |-> <<>>, c_cal_cost |-> 0,
     p_renewable_self |-> 0, p_renewable_export |-> 0,
     p_renewable_curtail |-> 0]

NoBlock ==
    [c_fcr |-> 0, c_afrr_pos |-> 0, c_afrr_neg |-> 0,
     y_fcr |-> 0, y_afrr_pos |-> 0, y_afrr_neg |-> 0]

NoTable == [n_rows |-> 0]
\* no MPC entry point is involved
NoMpc == [entry |-> "none"]
\* the solver is taken to return what SolveStep builds
NoRun == [kind |-> "none"]
NoModel == [variant |-> "none", T |-> 0]

(***************************************************************************)
(* Objective.  Money is a pair: mkt counts EUR / MoneyScale, cal counts    *)
(* EUR / (LambdaDen * DtDen); the value is the sum of both.                *)
(***************************************************************************)
MoneyScale == 1000 * DtDen * EtaNum
\* MoneyScale * (1 kW * dt / 1000)
EnergyMoney == MoneyScale \div (1000 * DtDen)
\* MoneyScale * (1 kW / 1000)
CapacityMoney == MoneyScale \div 1000
\* MoneyScale * (1 kW / eta_dis * dt / 1000)
CyclicMoney == (MoneyScale * EtaDen) \div (1000 * EtaNum * DtDen)

Money(m, c) == [mkt |-> m, cal |-> c]
Plus(x, y) == [mkt |-> x.mkt + y.mkt, cal |-> x.cal + y.cal]
Minus(x, y) == [mkt |-> x.mkt - y.mkt, cal |-> x.cal - y.cal]
Times(k, x) == [mkt |-> k * x.mkt, cal |-> k * x.cal]

\* summand of row i in da_profit_rule
da_profit_rule(i, v) ==
    Money((model.P_DA[i] * v.p_dis - model.P_DA[i] * v.p_ch) * EnergyMoney, 0)

\* summand of row i in afrr_energy_profit_rule
afrr_energy_profit_rule(i, v) ==
    Money((model.P_aFRR_E_pos[i] * v.p_afrr_pos_e * model.w_aFRR_pos[i]
           + model.P_aFRR_E_neg[i] * v.p_afrr_neg_e * model.w_aFRR_neg[i])
          * EnergyMoney, 0)

\* capacity revenue multiplied by the hours of a block
CapacityTimesDuration(id, b) ==
    Money((model.P_FCR[id] * b.c_fcr + model.P_aFRR_pos[id] * b.c_afrr_pos
           + model.P_aFRR_neg[id] * b.c_afrr_neg) * CapacityMoney
          * (TIMESTEPS_PER_BLOCK \div TIMESTEPS_PER_HOUR), 0)

\* summand of block id in as_capacity_profit_rule
as_capacity_profit_rule(id, b) ==
    Money((model.P_FCR[id] * b.c_fcr + model.P_aFRR_pos[id] * b.c_afrr_pos
           + model.P_aFRR_neg[id] * b.c_afrr_neg) * CapacityMoney, 0)

\* the cyclic cost of row i weighted by alpha
AlphaWeightedCyclic(v) ==
    Money(SumSeq([j \in DOMAIN v.p_dis_j |->
                     model.alpha * MarginalCosts[j] * v.p_dis_j[j]
                     * CyclicMoney]), 0)

\* summand of row i in cost_cyclic_rule
cost_cyclic_rule(v) ==
    Money(SumSeq([j \in DOMAIN v.p_dis_j |->
                     MarginalCosts[j] * v.p_dis_j[j] * CyclicMoney]), 0)

\* summand of row i in cost_calendar
cost_calendar(v) == Money(0, v.c_cal_cost)

\* summand of row i in profit_export
profit_export(i, v) ==
    Money(v.p_renewable_export * model.P_DA[i] * EnergyMoney, 0)

ZeroMoney == Money(0, 0)

NoTotals == [kind |-> "none"]
ZeroTotals ==
    [kind |-> "some", profit_da |-> ZeroMoney, profit_afrr_energy |-> ZeroMoney,
     profit_as_capacity |-> ZeroMoney, cost_cyclic |-> ZeroMoney,
     cost_calendar |-> ZeroMoney, profit_renewable_export |-> ZeroMoney]

\* the expressions of the model on the prefix extended by row i
AddStep(tot, i, new_block, v, b) ==
    IF tot.kind = "none" THEN tot
    ELSE [tot EXCEPT
            !.profit_da = Plus(@, da_profit_rule(i, v)),
            !.profit_afrr_energy = Plus(@, afrr_energy_profit_rule(i, v)),
            !.profit_as_capacity =
                IF new_block
                THEN Plus(@, as_capacity_profit_rule(model.block_map[i], b))
                ELSE @,
            !.cost_cyclic =
                IF "p_dis_j" \in model.vars THEN Plus(@, cost_cyclic_rule(v))
                ELSE @,
            !.cost_calendar =
                IF "c_cal_cost" \in model.vars THEN Plus(@, cost_calendar(v))
                ELSE @,
            !.profit_renewable_export =
                IF "p_renewable_export" \in model.vars
                THEN Plus(@, profit_export(i, v)) ELSE @]

\* model.objective of Model I
objective_rule(tot) ==
    Plus(Plus(tot.profit_da, tot.profit_afrr_energy), tot.profit_as_capacity)

\* model.objective as Model II replaces it
objective_II(tot) ==
    Minus(Plus(Plus(tot.profit_da, tot.profit_afrr_energy),
               tot.profit_as_capacity),
          Times(model.alpha, tot.cost_cyclic))

\* model.objective as Model III replaces it
objective_III(tot) ==
    Minus(objective_II(tot), Times(model.alpha, tot.cost_calendar))

\* model.objective as Model III-Renew replaces it
objective_IIIRenew(tot) ==
    Plus(objective_III(tot), tot.profit_renewable_export)

\* pyo.value(model.objective)
objective_value(tot) ==
    CASE model.variant = "I"         -> objective_rule(tot)
      [] model.variant = "II"        -> objective_II(tot)
      [] model.variant = "III"       -> objective_III(tot)
      [] model.variant = "III-renew" -> objective_IIIRenew(tot)

(***************************************************************************)
(* OptimizerService.optimize                                               *)
(***************************************************************************)
\* the model types with the forecasts they are requested with
RequestKinds ==
    ({"I", "II", "III"} \X {None}) \cup ({"III-renew"} \X GenerationForecasts)

Init ==
    /\ pc = "request"
    /\ \E k \in RequestKinds, h \in 1..MaxHorizonHours, shift \in PriceShifts,
          n \in DailyCycleLimits :
          request = [market_prices       |-> MarketPrices(shift, MaxTimesteps),
                     generation_forecast |-> k[2],
                     model_type          |-> k[1],
                     alpha               |-> 1,
                     daily_cycle_limit   |-> n,
                     time_horizon_hours  |-> h,
                     c_rate              |-> CRate]
    /\ \E s \in InitialSocPcts : battery_params = [initial_soc_pct |-> s,
                                                daily_cycle_limit |-> Some(OneCycle)]
    /\ optimizer = NewOptimizer
    /\ opt_input = None
    /\ country_data = NoTable
    /\ model = NoModel
    /\ t = -1
    /\ sol = NoStep
    /\ blk = NoBlock
    /\ day_dis = NoDay
    /\ totals = NoTotals
    /\ mpc = NoMpc
    /\ run = NoRun

\* opt_input = self.adapter.adapt(...), its two assignments and
\* optimizer = self._get_optimizer(model_type, alpha)
Adapt ==
    /\ pc = "request"
    /\ IF optimize_error(request) /= ""
       THEN /\ opt_input' = Raised(optimize_error(request))
            /\ pc' = "done"
       ELSE /\ opt_input' = adapt(request)
            /\ pc' = "input"
    /\ UNCHANGED <<request, battery_params, optimizer, country_data, model,
                   t, sol, blk, day_dis, totals, mpc, run>>

\* country_data = self.adapter.to_country_data(opt_input)
ToCountryData ==
    /\ pc = "input"
    /\ IF to_country_data_error(opt_input) /= ""
       THEN /\ country_data' = Raised(to_country_data_error(opt_input))
            /\ pc' = "done"
       ELSE /\ country_data' = to_country_data(opt_input)
            /\ pc' = "table"
    /\ UNCHANGED <<request, battery_params, optimizer, opt_input, model, t,
                   sol, blk, day_dis, totals, mpc, run>>

\* optimizer.build_optimization_model of the class _get_optimizer picked
build_optimization_model(model_type, cd, bp, alpha, daily_cycle_limit) ==
    CASE model_type = "I"         -> BuildModelI(cd, bp, daily_cycle_limit)
      [] model_type = "II"        -> BuildModelII(cd, bp, alpha)
      [] model_type = "III"       -> BuildModelIII(cd, bp, alpha)
      [] model_type = "III-renew" -> BuildModelIIIRenew(cd, bp, alpha)

\* self._block_to_times, self._day_to_times: the rows of each block, of each day
rows_by(ids) ==
    [k \in {ids[i] : i \in 1..Len(ids)} |-> {i \in 1..Len(ids) : ids[i] = k}]

\* the daily_cycle_limit build_optimization_model of BESSOptimizerModelI is
\* called with: Models II and III pass None to their parent
parent_daily_cycle_limit(model_type, daily_cycle_limit) ==
    IF model_type = "I" THEN daily_cycle_limit ELSE None

Build ==
    /\ pc = "table"
    /\ model' = build_optimization_model(opt_input.model_type, country_data,
                    battery_params, opt_input.alpha, request.daily_cycle_limit)
    /\ battery_params' =
          [battery_params EXCEPT
             !.daily_cycle_limit =
                parent_daily_cycle_limit(opt_input.model_type,
                                         request.daily_cycle_limit)]
    /\ optimizer' = [optimizer EXCEPT
                       !._block_to_times = rows_by(country_data.block_id),
                       !._day_to_times = rows_by(country_data.day_id)]
    /\ pc' = "solve"
    /\ UNCHANGED <<request, opt_input, country_data, t, sol, blk, day_dis,
                   totals, mpc, run>>

\* the values of one step put together
StepValues(c, d, g, lam, r) ==
    [p_ch |-> c.p_ch, p_dis |-> d.p_dis,
     p_afrr_pos_e |-> d.p_afrr_pos_e, p_afrr_neg_e |-> c.p_afrr_neg_e,
     p_total_ch |-> c.p_total_ch, p_total_dis |-> d.p_total_dis,
     y_total_ch |-> c.y_total_ch, y_total_dis |-> d.y_total_dis,
     e_soc |-> g.e_soc,
     p_ch_j |-> g.p_ch_j, p_dis_j |-> g.p_dis_j, e_soc_j |-> g.e_soc_j,
     z_segment_active |-> g.z_segment_active,
     lambda_cal |-> lam,
     c_cal_cost |-> IF lam = <<>> THEN 0 ELSE calendar_cost_rule(lam),
     p_renewable_self |-> r.p_renewable_self,
     p_renewable_export |-> r.p_renewable_export,
     p_renewable_curtail |-> r.p_renewable_curtail]

\* the solver extends a feasible prefix t0..t by step t + 1
SolveStep ==
    /\ pc = "solve"
    /\ t + 1 < model.T
    /\ LET i == t + 2
           new_block == i = 1 \/ model.block_map[i] /= model.block_map[i - 1]
           new_day == i = 1 \/ model.day_map[i] /= model.day_map[i - 1]
           discharge_side == DischargeSide(i)
       IN  \E b \in (IF new_block THEN BlockChoices ELSE {blk}) :
           \E r \in RenewableSide(i) :
           \E c \in ChargeSide(i, r), d \in discharge_side :
             /\ no_simultaneous_rule(c.y_total_ch, d.y_total_dis)
             /\ power_dis_reserve_limit_rule(d.p_total_dis, b)
             /\ power_ch_reserve_limit_rule(c.p_total_ch, b)
             /\ cross_market_exclusivity_rule_1(d.y_total_dis, b)
             /\ cross_market_exclusivity_rule_2(c.y_total_ch, b)
             /\ LET sum_p_dis ==
                        (IF new_day THEN 0 ELSE day_dis.p_dis) + d.p_dis
                    sum_p_total_dis ==
                        (IF new_day THEN 0 ELSE day_dis.p_total_dis)
                        + d.p_total_dis
                IN  \E g \in SocSide(i, c, d, b, sum_p_dis) :
                      /\ \E lam \in CalendarChoices(g) :
                           LET v == StepValues(c, d, g, lam, r)
                           IN  /\ t' = t + 1
                               /\ blk' = b
                               /\ day_dis' = [p_dis |-> sum_p_dis,
                                            p_total_dis |-> sum_p_total_dis]
                               /\ sol' = v
                               /\ totals' = AddStep(totals, i, new_block, v, b)
    /\ UNCHANGED <<pc, request, battery_params, optimizer, opt_input,
                   country_data, model, mpc, run>>

Next == Adapt \/ ToCountryData \/ Build \/ SolveStep

Spec == Init /\ [][Next]_vars

(***************************************************************************)
(* optimize called with other power ratings, on optimizers whose           *)
(* max_as_ratio attribute has been set.                                    *)
(***************************************************************************)
InitReserve ==
    /\ pc = "request"
    /\ \E m \in {"I", "II"}, h \in 1..MaxHorizonHours,
          c \in {CRate, QuarterRate} :
          request = [market_prices       |-> MarketPrices(0, MaxTimesteps),
                     generation_forecast |-> None,
                     model_type          |-> m,
                     alpha               |-> 1,
                     daily_cycle_limit   |-> Some(OneCycle),
                     time_horizon_hours  |-> h,
                     c_rate              |-> c]
    /\ \E s \in InitialSocPcts :
          battery_params = [initial_soc_pct |-> s,
                            daily_cycle_limit |-> Some(OneCycle)]
    \* the attribute max_as_ratio: not set, or set to 1.0
    /\ \E r \in {None, Some([num |-> 1, den |-> 1])} :
          optimizer = [NewOptimizer EXCEPT !.max_as_ratio = r]
    /\ opt_input = None
    /\ country_data = NoTable
    /\ model = NoModel
    /\ t = -1
    /\ sol = NoStep
    /\ blk = NoBlock
    /\ day_dis = NoDay
    /\ totals = NoTotals
    /\ mpc = NoMpc
    /\ run = NoRun

SpecReserve == InitReserve /\ [][Next]_vars

(***************************************************************************)
(* One OptimizerService called again and again with the same model_type    *)
(* and alpha: _get_optimizer hands every call the instance it memoized.    *)
(***************************************************************************)
InitCache ==
    /\ pc = "request"
    /\ \E n \in DailyCycleLimits, h \in 1..MaxHorizonHours :
          request = [market_prices       |-> MarketPrices(0, MaxTimesteps),
                     generation_forecast |-> None,
                     model_type          |-> "I",
                     alpha               |-> 1,
                     daily_cycle_limit   |-> n,
                     time_horizon_hours  |-> h,
                     c_rate              |-> CRate]
    /\ battery_params = [initial_soc_pct |-> 50,
                         daily_cycle_limit |-> Some(OneCycle)]
    /\ optimizer = NewOptimizer
    /\ opt_input = None
    /\ country_data = NoTable
    /\ model = NoModel
    /\ t = -1
    /\ sol = NoStep
    /\ blk = NoBlock
    /\ day_dis = NoDay
    /\ totals = NoTotals
    /\ mpc = NoMpc
    /\ run = NoRun

\* optimize has returned; the next call, of the same cache_key, is given the
\* optimizer the cache holds
optimize_again ==
    /\ pc = "solve"
    /\ t + 1 = model.T
    /\ \E n \in DailyCycleLimits, h \in 1..MaxHorizonHours :
          request' = [request EXCEPT !.daily_cycle_limit = n,
                                     !.time_horizon_hours = h]
    /\ pc' = "request"
    /\ opt_input' = None
    /\ country_data' = NoTable
    /\ model' = NoModel
    /\ t' = -1
    /\ sol' = NoStep
    /\ blk' = NoBlock
    /\ day_dis' = NoDay
    /\ totals' = NoTotals
    /\ UNCHANGED <<battery_params, optimizer, mpc, run>>

NextCache == Adapt \/ ToCountryData \/ Build \/ SolveStep \/ optimize_again

SpecCache == InitCache /\ [][NextCache]_vars

(***************************************************************************)
(* build_optimization_model called on a short table, as it may be on any   *)
(* DataFrame; the expressions of the objective are carried along.          *)
(***************************************************************************)
\* country_data.iloc[:n]
Head_rows(cd, n) ==
    [n_rows                |-> n,
     price_day_ahead       |-> SubSeq(cd.price_day_ahead, 1, n),
     price_afrr_energy_pos |-> SubSeq(cd.price_afrr_energy_pos, 1, n),
     price_afrr_energy_neg |-> SubSeq(cd.price_afrr_energy_neg, 1, n),
     price_fcr             |-> SubSeq(cd.price_fcr, 1, n),
     price_afrr_pos        |-> SubSeq(cd.price_afrr_pos, 1, n),
     price_afrr_neg        |-> SubSeq(cd.price_afrr_neg, 1, n),
     w_afrr_pos            |-> SubSeq(cd.w_afrr_pos, 1, n),
     w_afrr_neg            |-> SubSeq(cd.w_afrr_neg, 1, n),
     day_id                |-> SubSeq(cd.day_id, 1, n),
     block_id              |-> SubSeq(cd.block_id, 1, n),
     p_renewable_forecast_kw |->
        IF cd.p_renewable_forecast_kw.kind = "none" THEN None
        ELSE Some(SubSeq(cd.p_renewable_forecast_kw.val, 1, n))]

\* degradation weights the optimizers are constructed with
Alphas == {0, 2}

InitObjective ==
    /\ pc = "table"
    /\ \E k \in RequestKinds, a \in Alphas, n \in 1..ObjRows,
          prices \in {MarketPrices(0, MaxTimesteps), ZeroPrices(MaxTimesteps)} :
          /\ request = [market_prices       |-> prices,
                        generation_forecast |-> k[2],
                        model_type          |-> k[1],
                        alpha               |-> a,
                        daily_cycle_limit   |-> Some(OneCycle),
                        time_horizon_hours  |-> 1,
                        c_rate              |-> CRate]
          /\ opt_input = adapt(request)
          /\ country_data = Head_rows(to_country_data(opt_input), n)
    /\ \E s \in InitialSocPcts : battery_params = [initial_soc_pct |-> s,
                                                daily_cycle_limit |-> Some(OneCycle)]
    /\ optimizer = NewOptimizer
    /\ model = NoModel
    /\ t = -1
    /\ sol = NoStep
    /\ blk = NoBlock
    /\ day_dis = NoDay
    /\ totals = ZeroTotals
    /\ mpc = NoMpc
    /\ run = NoRun

NextObjective == Build \/ SolveStep

SpecObjective == InitObjective /\ [][NextObjective]_vars

(***************************************************************************)
(* The MPC entry points: OptimizerService.optimize_12h_mpc and the         *)
(* endpoint optimize_mpc.  A schedule is kept as the origin of each row:   *)
(* the iteration that solved it, the window of that iteration's solve (in  *)
(* hours) and the row's offset in the window.                              *)
(***************************************************************************)
\* len(request.market_prices.day_ahead) the endpoint insists on
MpcDataPoints == 48
\* the horizon of both entry points, in hours
MpcHorizonHours == 12
\* (horizon_hours, execution_hours) of a call; the defaults are (6, 4); the
\* last two are not windows of a 12 hour run
MpcWindows == {<<6, 4>>, <<4, 2>>, <<12, 12>>, <<4, 6>>, <<6, 5>>}
\* lengths of the price arrays of a request
MpcPointCounts == {MpcDataPoints - TIMESTEPS_PER_HOUR, MpcDataPoints}
\* model types of a request
MpcModelTypes == {"I"}

\* a call of DataAdapter.adapt with keyword arguments: market_prices has no
\* default, and a call without it raises TypeError before the body runs
adapt_call(args) ==
    IF "market_prices" \notin DOMAIN args
    THEN [kind |-> "raise", error |-> "TypeError"]
    ELSE [kind |-> "return", val |-> adapt(args)]

\* MPCRollingHorizon.solve_12h: iteration i solves the window
\* [i * h_exec, i * h_exec + h_opt) and appends its first h_exec hours;
\* iteration 0 starts from the configured SOC, every later one from the
\* SOC the iteration before it committed last
solve_12h(h_opt, h_exec, h_total) ==
    [schedule |->
        [r \in 1..(h_total * TIMESTEPS_PER_HOUR) |->
            LET i == (r - 1) \div (h_exec * TIMESTEPS_PER_HOUR)
            IN  [iteration    |-> i,
                 window_start |-> i * h_exec,
                 window_hours |-> h_opt,
                 offset       |-> (r - 1) % (h_exec * TIMESTEPS_PER_HOUR)]],
     solves |->
        [k \in 1..(h_total \div h_exec) |->
            [window_start    |-> (k - 1) * h_exec,
             window_hours    |-> h_opt,
             E_soc_init_from |-> IF k = 1 THEN "configured"
                                 ELSE "committed"]]]

optimize_12h_mpc ==
    /\ pc = "call"
    /\ mpc.entry = "optimize_12h_mpc"
    /\ LET r == adapt_call([battery_config     |-> _load_battery_config,
                            time_horizon_hours |-> MpcHorizonHours])
       IN  IF r.kind = "raise"
           THEN /\ mpc' = [mpc EXCEPT !.status = "raised", !.error = r.error]
                /\ UNCHANGED opt_input
           ELSE /\ opt_input' = [r.val EXCEPT !.model_type = request.model_type,
                                              !.alpha = request.alpha]
                /\ LET out == solve_12h(mpc.h_opt, mpc.h_exec, MpcHorizonHours)
                   IN  mpc' = [mpc EXCEPT !.status = "returned",
                                          !.schedule = out.schedule,
                                          !.solves = out.solves]
    /\ pc' = "done"
    /\ UNCHANGED <<request, battery_params, optimizer, country_data, model,
                   t, sol, blk, day_dis, totals, run>>

\* the endpoint, with OptimizerService.run_optimization up to its call of
\* the engine's optimize
optimize_mpc ==
    /\ pc = "call"
    /\ mpc.entry = "optimize_mpc"
    /\ IF Len(request.market_prices.day_ahead) /= MpcDataPoints
       THEN /\ mpc' = [mpc EXCEPT !.status = "raised", !.error = "HTTP 422"]
            /\ pc' = "done"
            /\ UNCHANGED request
       ELSE /\ request' =
                 [request EXCEPT
                    !.time_horizon_hours =
                        Len(request.market_prices.day_ahead) \div 4,
                    !.daily_cycle_limit = Some(OneCycle)]
            /\ mpc' = [mpc EXCEPT !.status = "running"]
            /\ pc' = "request"
    /\ UNCHANGED <<battery_params, optimizer, opt_input, country_data, model,
                   t, sol, blk, day_dis, totals, run>>

\* the schedule of the result: one entry per step of the one solve
_build_result ==
    /\ pc = "solve"
    /\ mpc.entry = "optimize_mpc"
    /\ t + 1 = model.T
    /\ LET n_timesteps == opt_input.time_horizon_hours * 4
       IN  mpc' = [mpc EXCEPT
                     !.status = "returned",
                     !.schedule =
                        [r \in 1..n_timesteps |->
                            [iteration    |-> 0,
                             window_start |-> 0,
                             window_hours |-> opt_input.time_horizon_hours,
                             offset       |-> r - 1]],
                     !.solves =
                        <<[window_start    |-> 0,
                           window_hours    |-> opt_input.time_horizon_hours,
                           E_soc_init_from |-> "configured"]>>]
    /\ pc' = "done"
    /\ UNCHANGED <<request, battery_params, optimizer, opt_input,
                   country_data, model, t, sol, blk, day_dis, totals, run>>

InitMPC ==
    /\ pc = "call"
    /\ \E e \in {"optimize_12h_mpc", "optimize_mpc"}, n \in MpcPointCounts,
          w \in MpcWindows, m \in MpcModelTypes :
          /\ request = [market_prices       |-> MarketPrices(0, n),
                        generation_forecast |-> None,
                        model_type          |-> m,
                        alpha               |-> 1,
                        daily_cycle_limit   |-> None,
                        time_horizon_hours  |-> 0,
                        c_rate              |-> CRate]
          \* the endpoint takes no windows: its one solve covers the horizon
          /\ e = "optimize_mpc" => w = <<MpcHorizonHours, MpcHorizonHours>>
          /\ mpc = [entry |-> e, status |-> "called", error |-> "",
                    h_opt |-> w[1], h_exec |-> w[2],
                    h_total |-> MpcHorizonHours,
                    schedule |-> <<>>, solves |-> <<>>]
    /\ battery_params = [initial_soc_pct |-> 50,
                         daily_cycle_limit |-> Some(OneCycle)]
    /\ optimizer = NewOptimizer
    /\ opt_input = None
    /\ country_data = NoTable
    /\ model = NoModel
    /\ t = -1
    /\ sol = NoStep
    /\ blk = NoBlock
    /\ day_dis = NoDay
    /\ totals = NoTotals
    /\ run = NoRun

NextMPC ==
    \/ optimize_12h_mpc
    \/ optimize_mpc
    \/ Adapt
    \/ ToCountryData
    \/ Build
    \/ SolveStep
    \/ _build_result

SpecMPC == InitMPC /\ [][NextMPC]_vars

(***************************************************************************)
(* solve_model, extract_solution and _build_result on every outcome of the *)
(* solver, and in every surrounding: the solvers installed, the variable   *)
(* GRIDKEY_SOLVER and the solver the caller names.                         *)
(***************************************************************************)
\* the auto-detection order of detect_available_solver
solver_priority == <<"cplex", "gurobi", "highs">>
\* sets of installed solvers
Installations == {{}, {"highs"}, {"gurobi", "highs"}, {"cbc"}}
\* values of the environment variable GRIDKEY_SOLVER ("" when unset)
PreferredSolvers == {"", "highs", "scip"}
\* the solver_name argument of solve_model (the service passes none)
SolverNames == {None, Some("highs"), Some("cbc")}
\* what solver.solve does: the condition it stops on, whether it holds an
\* incumbent then, and whether it raises rather than return its results
BackendOutcomes ==
    {[termination |-> "optimal", incumbent |-> TRUE, raises |-> FALSE],
     [termination |-> "feasible", incumbent |-> TRUE, raises |-> FALSE],
     [termination |-> "infeasible", incumbent |-> FALSE, raises |-> FALSE],
     [termination |-> "infeasible", incumbent |-> FALSE, raises |-> TRUE],
     [termination |-> "maxTimeLimit", incumbent |-> TRUE, raises |-> FALSE],
     [termination |-> "maxTimeLimit", incumbent |-> FALSE, raises |-> FALSE],
     [termination |-> "maxTimeLimit", incumbent |-> FALSE, raises |-> TRUE],
     [termination |-> "error", incumbent |-> FALSE, raises |-> TRUE]}

\* the name GRIDKEY_SOLVER gives if that solver is installed, else the first
\* installed solver of solver_priority, else RuntimeError
detect_available_solver(installed, preferred_solver) ==
    IF preferred_solver /= "" /\ preferred_solver \in installed
    THEN [kind |-> "return", val |-> preferred_solver]
    ELSE IF \E k \in 1..Len(solver_priority) : solver_priority[k] \in installed
         THEN [kind |-> "return",
               val  |-> solver_priority[
                           CHOOSE k \in 1..Len(solver_priority) :
                              /\ solver_priority[k] \in installed
                              /\ \A l \in 1..(k - 1) :
                                    solver_priority[l] \notin installed]]
         ELSE [kind |-> "raise", error |-> "RuntimeError"]

\* the object the except branch of solve_model returns
ErrorResults(solver_name) ==
    [error |-> TRUE, termination_condition |-> "error", _solve_time |-> 0,
     _solver_name |-> solver_name, incumbent |-> FALSE]

\* solve_model(model, solver_name): what it returns or raises, and the
\* number of calls of solver.solve it made
solve_model_call(r, solver_name) ==
    LET first == IF solver_name.kind = "none"
                 THEN detect_available_solver(r.installed, r.preferred_solver)
                 ELSE [kind |-> "return", val |-> solver_name.val]
    IN  IF first.kind = "raise"
        THEN [kind |-> "raise", error |-> first.error, solves |-> 0]
        ELSE LET second == IF first.val \in r.installed THEN first
                           ELSE detect_available_solver(r.installed,
                                                        r.preferred_solver)
             IN  IF second.kind = "raise"
                 THEN [kind |-> "return", solves |-> 0,
                       results |-> ErrorResults(first.val)]
                 ELSE IF r.backend.raises
                 THEN [kind |-> "return", solves |-> 1,
                       results |-> ErrorResults(second.val)]
                 ELSE [kind |-> "return", solves |-> 1,
                       results |->
                          [error |-> FALSE,
                           termination_condition |-> r.backend.termination,
                           _solve_time |-> 1,
                           _solver_name |-> second.val,
                           incumbent |-> r.backend.incumbent]]

\* the status, the solver and the tables of values of the solution dict
extract_solution(solver_results) ==
    IF solver_results.error
    THEN [status |-> "error", solve_time |-> solver_results._solve_time]
    ELSE IF solver_results.termination_condition \in {"optimal", "feasible"}
    THEN [status |-> solver_results.termination_condition,
          solve_time |-> solver_results._solve_time,
          solver |-> solver_results._solver_name,
          termination_condition |-> solver_results.termination_condition,
          e_soc |-> "values of the model"]
    ELSE [status |-> "failed",
          termination_condition |-> solver_results.termination_condition,
          solve_time |-> solver_results._solve_time]

\* solution.get(key, default)
get(solution, key, default) ==
    IF key \in DOMAIN solution THEN solution[key] ELSE default

\* the status, the solver and the lengths of the lists of the
\* OptimizationResult that _build_result makes of a solution dict
OptimizationResult(solution, inp) ==
    IF get(solution, "status", "none") \in {"error", "failed"}
    THEN [schedule |-> 0, soc_trajectory |-> 0,
          solver_name |-> get(solution, "solver", "unknown"),
          status |-> get(solution, "status", "failed")]
    ELSE [schedule |-> inp.time_horizon_hours * 4,
          soc_trajectory |-> inp.time_horizon_hours * 4,
          solver_name |-> get(solution, "solver", "unknown"),
          status |-> get(solution, "status", "optimal")]

\* the ScheduleEntry _build_result appends for step t (from 0) of a solution
\* whose values at t are s; timestamp in minutes after base_time; the
\* powers are whole kW, so that p > 0.001 is p > 0
schedule_entry(step, s) ==
    [timestamp |-> 15 * step,
     action    |-> IF s.p_dis > 0 THEN "discharge"
                   ELSE IF s.p_ch > 0 THEN "charge" ELSE "idle",
     power_kw  |-> IF s.p_dis > 0 THEN s.p_dis
                   ELSE IF s.p_ch > 0 THEN s.p_ch ELSE 0,
     market    |-> "da",
     renewable_action |->
        IF "p_renewable_self" \in model.vars THEN Some("self_consume")
        ELSE None,
     renewable_power_kw |->
        IF "p_renewable_self" \in model.vars THEN Some(s.p_renewable_self)
        ELSE None]

\* greatest common divisor of two naturals
RECURSIVE GCD(_, _)
GCD(a, b) == IF b = 0 THEN a ELSE GCD(b, a % b)

\* max(0.0, min(1.0, num / den)) as a fraction in lowest terms
ClampedFraction(num, den) ==
    IF num <= 0 THEN [num |-> 0, den |-> 1]
    ELSE IF num >= den THEN [num |-> 1, den |-> 1]
    ELSE [num |-> num \div GCD(num, den), den |-> den \div GCD(num, den)]

\* soc_after of a schedule entry and the entry of soc_trajectory, for the
\* solution's e_soc[t] (in energy units)
soc_after(e_soc, inp) ==
    ClampedFraction(e_soc, inp.battery_capacity_kwh * EnergyScale)

\* the money keys extract_solution puts into the solution dict of a solved
\* model whose expressions have the values tot
extract_money(tot) ==
    [key \in {"objective_value", "profit_da", "profit_afrr_energy",
              "profit_as_capacity"}
            \cup (IF "p_dis_j" \in model.vars THEN {"cost_cyclic"} ELSE {})
       |-> IF key = "objective_value" THEN objective_value(tot) ELSE tot[key]]

\* the cost fields of the OptimizationResult and its net_profit
result_money(solution) ==
    LET cyclic_cost == get(solution, "cost_cyclic", ZeroMoney)
        calendar_cost == get(solution, "cost_calendar", ZeroMoney)
        degradation_cost == Plus(cyclic_cost, calendar_cost)
    IN  [objective_value     |-> get(solution, "objective_value", ZeroMoney),
         net_profit          |-> Minus(get(solution, "objective_value",
                                           ZeroMoney), degradation_cost),
         degradation_cost    |-> degradation_cost,
         cyclic_aging_cost   |-> cyclic_cost,
         calendar_aging_cost |-> calendar_cost]

NoResults == [kind |-> "none"]

\* model, solver_results = optimizer.solve_model(model)
solve_model ==
    /\ pc = "solve"
    /\ run.kind = "solver"
    /\ LET out == solve_model_call(run, run.solver_name)
       IN  /\ run' = [run EXCEPT !.solved = out]
           /\ pc' = IF out.kind = "raise" THEN "done" ELSE "solved"
    /\ UNCHANGED <<request, battery_params, optimizer, opt_input,
                   country_data, model, t, sol, blk, day_dis, totals, mpc>>

\* solution = optimizer.extract_solution(model, solver_results)
ExtractSolution ==
    /\ pc = "solved"
    /\ run' = [run EXCEPT !.solution = extract_solution(run.solved.results)]
    /\ pc' = "extracted"
    /\ UNCHANGED <<request, battery_params, optimizer, opt_input,
                   country_data, model, t, sol, blk, day_dis, totals, mpc>>

\* return self._build_result(solution, opt_input, solver_results)
BuildResult ==
    /\ pc = "extracted"
    /\ run' = [run EXCEPT !.result = OptimizationResult(run.solution,
                                                        opt_input)]
    /\ pc' = "done"
    /\ UNCHANGED <<request, battery_params, optimizer, opt_input,
                   country_data, model, t, sol, blk, day_dis, totals, mpc>>

InitSolve ==
    /\ pc = "table"
    /\ request = [market_prices       |-> MarketPrices(0, MaxTimesteps),
                  generation_forecast |-> None,
                  model_type          |-> "I",
                  alpha               |-> 1,
                  daily_cycle_limit   |-> Some(OneCycle),
                  time_horizon_hours  |-> 1,
                  c_rate              |-> CRate]
    /\ opt_input = adapt(request)
    /\ country_data = to_country_data(opt_input)
    /\ battery_params = [initial_soc_pct |-> 50,
                         daily_cycle_limit |-> Some(OneCycle)]
    /\ optimizer = NewOptimizer
    /\ model = NoModel
    /\ t = -1
    /\ sol = NoStep
    /\ blk = NoBlock
    /\ day_dis = NoDay
    /\ totals = NoTotals
    /\ mpc = NoMpc
    /\ \E i \in Installations, p \in PreferredSolvers, n \in SolverNames,
          b \in BackendOutcomes :
          run = [kind |-> "solver", installed |-> i, preferred_solver |-> p,
                 solver_name |-> n, backend |-> b, solved |-> NoResults, solution |-> NoResults,
                 result |-> NoResults]

NextSolve == Build \/ solve_model \/ ExtractSolution \/ BuildResult

SpecSolve == InitSolve /\ [][NextSolve]_vars

(***************************************************************************)
(* OptimizerService.optimize up to the built model, on requests whose      *)
(* price arrays and horizon need not fit each other.                       *)
(***************************************************************************)
\* time_horizon_hours of a request
InputHorizons == {-1, 0, 1, 4}
\* lengths of the 15-minute arrays of a request
QuarterHourLengths == {0, 4, 16, 20}
\* lengths of the fcr array of a request
BlockLengths == {0, 1, 2}
\* the key a request lacks ("": none)
MissingKeys == {"", "day_ahead", "fcr"}

\* market_prices with arrays of the given lengths, without the key missing
InputPrices(n_da, n_pos, n_neg, n_fcr, missing) ==
    LET all == [day_ahead         |-> Cycle(DaPricePattern, 0, n_da),
                afrr_energy_pos   |-> Cycle(AfrrPosEnergyPattern, 0, n_pos),
                afrr_energy_neg   |-> Cycle(AfrrNegEnergyPattern, 0, n_neg),
                fcr               |-> Cycle(FcrBlockPrices, 0, n_fcr),
                afrr_capacity_pos |-> AfrrPosBlockPrices,
                afrr_capacity_neg |-> AfrrNegBlockPrices]
    IN  [key \in DOMAIN all \ {missing} |-> all[key]]

InitInput ==
    /\ pc = "request"
    /\ \E h \in InputHorizons, n_da \in QuarterHourLengths,
          n_pos \in QuarterHourLengths, n_neg \in QuarterHourLengths,
          n_fcr \in BlockLengths, missing \in MissingKeys :
          request = [market_prices       |->
                        InputPrices(n_da, n_pos, n_neg, n_fcr, missing),
                     generation_forecast |-> None,
                     model_type          |-> "I",
                     alpha               |-> 1,
                     daily_cycle_limit   |-> Some(OneCycle),
                     time_horizon_hours  |-> h,
                     c_rate              |-> CRate]
    /\ battery_params = [initial_soc_pct |-> 50,
                         daily_cycle_limit |-> Some(OneCycle)]
    /\ optimizer = NewOptimizer
    /\ opt_input = None
    /\ country_data = NoTable
    /\ model = NoModel
    /\ t = -1
    /\ sol = NoStep
    /\ blk = NoBlock
    /\ day_dis = NoDay
    /\ totals = NoTotals
    /\ mpc = NoMpc
    /\ run = NoRun

NextInput == Adapt \/ ToCountryData \/ Build

SpecInput == InitInput /\ [][NextInput]_vars

\* calls on prices that are in order: the model types and a string that
\* names none, alpha -1, 0 or 1, c_rate -0.5, 0, 0.5, 2 or 2.5
InitParams ==
    /\ pc = "request"
    /\ \E m \in ModelTypes \cup {"IV"}, a \in {-1, 0, 1},
          c \in {[num |-> -1, den |-> 2], [num |-> 0, den |-> 1], CRate,
                 [num |-> 2, den |-> 1], [num |-> 5, den |-> 2]} :
          request = [market_prices       |-> MarketPrices(0, MaxTimesteps),
                     generation_forecast |-> None,
                     model_type          |-> m,
                     alpha               |-> a,
                     daily_cycle_limit   |-> Some(OneCycle),
                     time_horizon_hours  |-> 1,
                     c_rate              |-> c]
    /\ battery_params = [initial_soc_pct |-> 50,
                         daily_cycle_limit |-> Some(OneCycle)]
    /\ optimizer = NewOptimizer
    /\ opt_input = None
    /\ country_data = NoTable
    /\ model = NoModel
    /\ t = -1
    /\ sol = NoStep
    /\ blk = NoBlock
    /\ day_dis = NoDay
    /\ totals = NoTotals
    /\ mpc = NoMpc
    /\ run = NoRun

SpecParams == InitParams /\ [][NextInput]_vars

(***************************************************************************)
(* BESSOptimizerModelIII.__init__ on the calendar breakpoints of an aging  *)
(* configuration, from the assignment of self.calendar_params on.          *)
(***************************************************************************)
\* breakpoint tables of up to MaxBreakpoints rows are loaded
MaxBreakpoints == 3

\* the exception the validation ends with and the warnings it has logged by
\* then: SOC not strictly increasing, first and last SOC, negative cost,
\* decreasing cost, in this order
_validate_calendar_params(soc_points, cost_points, battery_capacity) ==
    LET n == Len(soc_points)
        span == {w \in {"first", "last"} :
                    \/ w = "first" /\ soc_points[1] /= 0
                    \/ w = "last" /\ soc_points[n] /= battery_capacity}
    IN  IF \E i \in 2..n : soc_points[i] <= soc_points[i - 1]
        THEN [error |-> "ValueError", warnings |-> {}]
        ELSE IF \E i \in 1..Len(cost_points) : cost_points[i] < 0
        THEN [error |-> "ValueError", warnings |-> span]
        ELSE [error |-> "",
              warnings |->
                 span \cup
                 (IF \E i \in 2..Len(cost_points) :
                        cost_points[i] < cost_points[i - 1]
                  THEN {"cost"} ELSE {})]

\* breakpoints in kWh and EUR/hr, as many costs as SOC values
InitCalendar ==
    /\ pc = "init"
    /\ \E n \in 2..MaxBreakpoints :
       \E soc \in [1..n -> {0, 100, capacity_kwh \div 2, capacity_kwh}],
          cost \in [1..n -> {-1, 0, 1, 2}] :
          optimizer = [calendar_params |->
                          [num_breakpoints         |-> n,
                           soc_breakpoints_kwh     |-> soc,
                           cost_breakpoints_eur_hr |-> cost]]
    /\ battery_params = [initial_soc_pct |-> 50,
                         daily_cycle_limit |-> Some(OneCycle)]
    /\ request = None
    /\ opt_input = None
    /\ country_data = NoTable
    /\ model = NoModel
    /\ t = -1
    /\ sol = NoStep
    /\ blk = NoBlock
    /\ day_dis = NoDay
    /\ totals = NoTotals
    /\ mpc = NoMpc
    /\ run = NoRun

\* self._validate_calendar_params(), which ends the constructor
ValidateCalendar ==
    /\ pc = "init"
    /\ LET r == _validate_calendar_params(
                    optimizer.calendar_params.soc_breakpoints_kwh,
                    optimizer.calendar_params.cost_breakpoints_eur_hr,
                    capacity_kwh)
       IN  /\ run' = [kind |-> "constructor", error |-> r.error,
                      warnings |-> r.warnings]
           /\ pc' = IF r.error = "" THEN "constructed" ELSE "done"
    /\ UNCHANGED <<request, battery_params, optimizer, opt_input,
                   country_data, model, t, sol, blk, day_dis, totals, mpc>>

SpecCalendar == InitCalendar /\ [][ValidateCalendar]_vars

(***************************************************************************)
(* Properties                                                              *)
(***************************************************************************)
\* the state shows a step of a solution
AtStep == pc = "solve" /\ t >= 0
\* the row of the table the step belongs to
Row == t + 1
\* the price the request carries for the row means "not activated"
Inactive(cell) == cell.kind = "none" \/ cell = Num(0)
HasSegments == Len(sol.e_soc_j) = num_segments
HasCalendar == Len(sol.lambda_cal) = num_breakpoints

\* C1: an aFRR energy price of exactly 0 or null in the request is NaN in the
\* table to_country_data builds; at every step of every feasible solution
\* whose price is so, the aFRR energy bid of that direction is 0, the price
\* parameter of the model is the number 0 and the step adds nothing to
\* profit_afrr_energy for that direction.
C1_ZeroMeansInactive ==
    /\ pc \in {"table", "solve"} =>
          \A i \in 1..country_data.n_rows :
             /\ Inactive(request.market_prices.afrr_energy_pos[i])
                   => country_data.price_afrr_energy_pos[i] = NaN
             /\ Inactive(request.market_prices.afrr_energy_neg[i])
                   => country_data.price_afrr_energy_neg[i] = NaN
    /\ AtStep =>
          /\ Inactive(request.market_prices.afrr_energy_pos[Row]) =>
                /\ sol.p_afrr_pos_e = 0
                /\ model.P_aFRR_E_pos[Row] = 0
                /\ model.P_aFRR_E_pos[Row] * sol.p_afrr_pos_e = 0
          /\ Inactive(request.market_prices.afrr_energy_neg[Row]) =>
                /\ sol.p_afrr_neg_e = 0
                /\ model.P_aFRR_E_neg[Row] = 0
                /\ model.P_aFRR_E_neg[Row] * sol.p_afrr_neg_e = 0

\* a step whose aFRR+ price is null or 0 and whose aFRR- price is a price:
\* no aFRR+ bid, and an aFRR- bid that is not forced to 0
C1_Witness ==
    /\ AtStep
    /\ Inactive(request.market_prices.afrr_energy_pos[Row])
    /\ ~ Inactive(request.market_prices.afrr_energy_neg[Row])
    /\ sol.p_afrr_pos_e = 0
    /\ sol.p_afrr_neg_e > 0

\* C2: at every step of every feasible solution of every model, the state
\* of charge lies between SOC_min and SOC_max times the capacity, whatever
\* the initial SOC; in Models II and III it is the sum of the segments.
C2_SocEnvelope ==
    AtStep =>
       /\ soc_min * capacity_kwh * EnergyScale <= sol.e_soc
       /\ sol.e_soc <= soc_max * capacity_kwh * EnergyScale
       /\ model.variant /= "I" =>
             /\ HasSegments
             /\ sol.e_soc = SumSeq(sol.e_soc_j)

\* a segment model started empty and charged, or started full and discharged
C2_Witness ==
    /\ AtStep
    /\ HasSegments
    /\ battery_params.initial_soc_pct \in {0, 100}
    /\ sol.e_soc /= model.E_soc_init
    /\ sol.e_soc = SumSeq(sol.e_soc_j)

\* C3: at every step the total charging power or the total discharging
\* power is 0; the total charging power is p_ch plus the aFRR- energy bid
\* plus, in Model III-Renew, the self-consumed renewable power; the total
\* discharging power is p_dis plus the aFRR+ energy bid.
C3_NoSimultaneous ==
    AtStep =>
       /\ sol.p_total_ch * sol.p_total_dis = 0
       /\ sol.p_total_ch = sol.p_ch + sol.p_afrr_neg_e
                           + (IF model.variant = "III-renew"
                              THEN sol.p_renewable_self ELSE 0)
       /\ sol.p_total_dis = sol.p_dis + sol.p_afrr_pos_e

\* a step that charges from the aFRR- market, and does not discharge
C3_Witness ==
    /\ AtStep
    /\ sol.p_afrr_neg_e > 0
    /\ sol.p_total_ch > 0
    /\ sol.p_total_dis = 0

\* C4: at every step, the first included, a segment j >= 2 holds energy only
\* if segment j - 1 holds at least E_seg - epsilon.
C4_Lifo ==
    (AtStep /\ HasSegments) =>
       \A j \in 2..num_segments :
          sol.e_soc_j[j] > 0 =>
             sol.e_soc_j[j - 1]
                >= (capacity_kwh * EnergyScale) \div num_segments
                   - lifo_epsilon_kwh * EnergyScale

\* the first step of a solution that charges into segment 2
C4_Witness ==
    /\ AtStep /\ HasSegments
    /\ t = 0
    /\ sol.p_ch_j[2] > 0
    /\ sol.e_soc_j[2] > 0

\* C5: at every step each segment holds at least as much as the next one,
\* and between 0 and E_seg.
C5_StackedTank ==
    (AtStep /\ HasSegments) =>
       /\ \A j \in 1..(num_segments - 1) : sol.e_soc_j[j] >= sol.e_soc_j[j + 1]
       /\ \A j \in J :
             /\ 0 <= sol.e_soc_j[j]
             /\ sol.e_soc_j[j] * num_segments <= capacity_kwh * EnergyScale

\* a step that leaves segment 2 partly filled on top of a full segment 1
C5_Witness ==
    /\ AtStep /\ HasSegments
    /\ sol.e_soc_j[2] > 0
    /\ sol.e_soc_j[1] > sol.e_soc_j[2]
    /\ sol.p_dis_j[2] > 0

\* C6: at every step of Model III the weights lambda_cal sum to 1, at most two
\* of them are non-zero and those two are adjacent, the weighted sum of the
\* SOC breakpoints is the state of charge, and c_cal_cost is the weighted sum
\* of the breakpoint costs, which is the linear interpolation of the costs of
\* the two breakpoints that enclose the state of charge.
C6_CalendarInterpolation ==
    (AtStep /\ model.variant \in {"III", "III-renew"}) =>
       /\ HasCalendar
       /\ SumSeq(sol.lambda_cal) = LambdaDen
       /\ Cardinality({k \in I : sol.lambda_cal[k] /= 0}) <= 2
       /\ \A a, b \in I :
             (a < b /\ sol.lambda_cal[a] /= 0 /\ sol.lambda_cal[b] /= 0)
                => b = a + 1
       /\ SumSeq([k \in I |-> sol.lambda_cal[k] * Red(SOC_point[k])])
             = Red(sol.e_soc) * LambdaDen
       /\ sol.c_cal_cost
             = SumSeq([k \in I |-> sol.lambda_cal[k] * CostBreakpoints[k]])
       /\ \A k \in 1..(num_breakpoints - 1) :
             (SOC_point[k] <= sol.e_soc /\ sol.e_soc <= SOC_point[k + 1]) =>
                sol.c_cal_cost * Red(SOC_point[k + 1] - SOC_point[k])
                   = LambdaDen
                     * (CostBreakpoints[k] * Red(SOC_point[k + 1] - sol.e_soc)
                        + CostBreakpoints[k + 1]
                          * Red(sol.e_soc - SOC_point[k]))

\* a step whose state of charge lies strictly between two breakpoints: two
\* weights are non-zero and the cost lies between the two breakpoint costs
C6_Witness ==
    /\ AtStep /\ HasCalendar
    /\ Cardinality({k \in I : sol.lambda_cal[k] /= 0}) = 2
    /\ sol.lambda_cal[2] /= 0 /\ sol.lambda_cal[3] /= 0
    /\ sol.c_cal_cost > CostBreakpoints[2] * LambdaDen
    /\ sol.c_cal_cost < CostBreakpoints[3] * LambdaDen

\* the table carries a forecast column with at least one number in it
ForecastInTable ==
    /\ country_data.p_renewable_forecast_kw.kind = "some"
    /\ \E k \in 1..country_data.n_rows :
          country_data.p_renewable_forecast_kw.val[k].kind = "num"

\* the forecast of the step's row, NaN counted as 0
ForecastAtRow ==
    LET cell == country_data.p_renewable_forecast_kw.val[Row]
    IN  IF cell.kind = "num" THEN cell.val ELSE 0

\* C7: in a Model III-Renew build on a table whose forecast is not all NaN,
\* at every step self-consumption, export and curtailment are non-negative
\* and add up to the forecast of the step (0 where it is NaN), and the total
\* charging power is p_ch plus the aFRR- energy bid plus the self-consumption
\* and equals the sum of the segment charging powers; on a table without a
\* forecast column, or with an all-NaN one, the build is Model III's build
\* and has no renewable variable.
C7_RenewableBalance ==
    (pc = "solve" /\ opt_input.model_type = "III-renew") =>
       IF ForecastInTable
       THEN /\ model.variant = "III-renew"
            /\ AtStep =>
                  /\ sol.p_renewable_self + sol.p_renewable_export
                        + sol.p_renewable_curtail = ForecastAtRow
                  /\ sol.p_renewable_self >= 0
                  /\ sol.p_renewable_export >= 0
                  /\ sol.p_renewable_curtail >= 0
                  /\ sol.p_total_ch
                        = sol.p_ch + sol.p_afrr_neg_e + sol.p_renewable_self
                  /\ sol.p_total_ch = SumSeq(sol.p_ch_j)
       ELSE /\ model = BuildModelIII(country_data, battery_params,
                                     opt_input.alpha)
            /\ model.variant = "III"
            /\ model.vars \cap {"p_renewable_self", "p_renewable_export",
                                "p_renewable_curtail"} = {}
            /\ model.P_renewable = <<>>
            /\ AtStep =>
                  /\ sol.p_renewable_self = 0
                  /\ sol.p_renewable_export = 0
                  /\ sol.p_renewable_curtail = 0
                  /\ sol.p_total_ch = sol.p_ch + sol.p_afrr_neg_e

\* a step of Model III-Renew that charges the segments from the renewable
\* forecast alone
C7_Witness ==
    /\ AtStep
    /\ opt_input.model_type = "III-renew"
    /\ ForecastInTable
    /\ ForecastAtRow > 0
    /\ sol.p_renewable_self = ForecastAtRow
    /\ sol.p_ch = 0 /\ sol.p_afrr_neg_e = 0
    /\ SumSeq(sol.p_ch_j) = sol.p_renewable_self

\* the number in a cell of the table, NaN counted as 0
CellValue(cell) == IF cell.kind = "num" THEN cell.val ELSE 0

\* C8: the objective value is profit_da + profit_afrr_energy +
\* profit_as_capacity, plus profit_renewable_export in Model III-Renew, minus
\* alpha times cost_cyclic in Models II and III, minus alpha times
\* cost_calendar in Model III; each step adds price * (p_dis - p_ch) * dt to
\* profit_da, adds the aFRR+ and the aFRR- energy revenue both with a positive
\* sign to profit_afrr_energy, and adds price * capacity to profit_as_capacity
\* at the first step of a block only, with no factor for the block duration.
C8_Objective ==
    [][(t' = t + 1) =>
         LET i == t' + 1
             first == i = 1
                      \/ country_data.block_id[i] /= country_data.block_id[i - 1]
             aged == model.variant \in {"II", "III", "III-renew"}
             calendar == model.variant \in {"III", "III-renew"}
             renew == model.variant = "III-renew"
             \* money of 1 kW at 1 EUR/MWh over one step, of 1 kW at 1 EUR/MW,
             \* and of 1 kW discharged over one step at 0.001 EUR/kWh
             per_step == MoneyScale \div (1000 * DtDen)
             per_block == MoneyScale \div 1000
             per_discharge == (MoneyScale * EtaDen) \div (1000 * DtDen * EtaNum)
         IN  /\ totals'.profit_da.mkt - totals.profit_da.mkt
                   = country_data.price_day_ahead[i]
                     * (sol'.p_dis - sol'.p_ch) * per_step
             /\ totals'.profit_afrr_energy.mkt - totals.profit_afrr_energy.mkt
                   = (CellValue(country_data.price_afrr_energy_pos[i])
                         * sol'.p_afrr_pos_e
                      + CellValue(country_data.price_afrr_energy_neg[i])
                         * sol'.p_afrr_neg_e) * per_step
             /\ totals'.profit_as_capacity.mkt - totals.profit_as_capacity.mkt
                   = IF first
                     THEN (country_data.price_fcr[i] * blk'.c_fcr
                           + country_data.price_afrr_pos[i] * blk'.c_afrr_pos
                           + country_data.price_afrr_neg[i] * blk'.c_afrr_neg)
                          * per_block
                     ELSE 0
             /\ totals'.cost_cyclic.mkt - totals.cost_cyclic.mkt
                   = IF aged
                     THEN SumSeq([j \in J |->
                                    MarginalCosts[j] * sol'.p_dis_j[j]])
                          * per_discharge
                     ELSE 0
             /\ totals'.cost_calendar.cal - totals.cost_calendar.cal
                   = IF calendar THEN sol'.c_cal_cost ELSE 0
             /\ totals'.profit_renewable_export.mkt
                   - totals.profit_renewable_export.mkt
                   = IF renew
                     THEN country_data.price_day_ahead[i]
                          * sol'.p_renewable_export * per_step
                     ELSE 0
             /\ objective_value(totals').mkt
                   = totals'.profit_da.mkt + totals'.profit_afrr_energy.mkt
                     + totals'.profit_as_capacity.mkt
                     + (IF renew THEN totals'.profit_renewable_export.mkt ELSE 0)
                     - (IF aged THEN model.alpha * totals'.cost_cyclic.mkt
                        ELSE 0)
             /\ objective_value(totals').cal
                   = - (IF calendar THEN model.alpha * totals'.cost_calendar.cal
                        ELSE 0)
      ]_vars

\* the second step of a block with an aFRR+ capacity bid: the capacity revenue
\* is the price times the bid, once, and it is the whole objective value
C8_Witness ==
    /\ AtStep /\ t = 1
    /\ totals.kind = "some"
    /\ blk.c_afrr_pos > 0
    /\ totals.profit_as_capacity.mkt
          = country_data.price_afrr_pos[1] * blk.c_afrr_pos * (MoneyScale \div 1000)
    /\ totals.profit_as_capacity.mkt > 0
    /\ objective_value(totals) = totals.profit_as_capacity

\* an MPC call that has ended, made with 12 hours of prices and with windows
\* h_exec <= h_opt that divide the horizon
MpcRunEnded ==
    /\ pc = "done"
    /\ mpc.entry \in {"optimize_12h_mpc", "optimize_mpc"}
    /\ Len(request.market_prices.day_ahead)
          = mpc.h_total * TIMESTEPS_PER_HOUR
    /\ mpc.h_exec <= mpc.h_opt
    /\ mpc.h_total % mpc.h_exec = 0

\* C9: an MPC run returns a schedule of exactly 4 * H_total rows; the rows
\* [4 * i * H_exec, 4 * (i + 1) * H_exec) are the first H_exec hours of the
\* solve of iteration i over the window [i * H_exec, i * H_exec + H_opt), and
\* no row beyond an iteration's committed boundary is in the output.
C9_CommittedRows ==
    MpcRunEnded =>
       /\ mpc.status = "returned"
       /\ Len(mpc.schedule) = 4 * mpc.h_total
       /\ \A r \in 1..Len(mpc.schedule) :
             LET i == (r - 1) \div (4 * mpc.h_exec)
             IN  /\ mpc.schedule[r].iteration = i
                 /\ mpc.schedule[r].window_start = i * mpc.h_exec
                 /\ mpc.schedule[r].window_hours = mpc.h_opt
                 /\ mpc.schedule[r].offset = (r - 1) - 4 * i * mpc.h_exec
                 /\ mpc.schedule[r].offset < 4 * mpc.h_exec

\* C10: an MPC run solves H_total / H_exec iterations; iteration 0 starts
\* from the configured initial SOC and every later iteration from the e_soc
\* of the last step the iteration before it committed, each over the window
\* that begins where the one before it stopped committing.
C10_SocChaining ==
    MpcRunEnded =>
       /\ mpc.status = "returned"
       /\ Len(mpc.solves) = mpc.h_total \div mpc.h_exec
       /\ \A k \in 1..Len(mpc.solves) :
             /\ mpc.solves[k].window_start = (k - 1) * mpc.h_exec
             /\ mpc.solves[k].E_soc_init_from
                   = (IF k = 1 THEN "configured" ELSE "committed")
       /\ mpc.entry = "optimize_mpc" =>
             model.E_soc_init
                = (battery_params.initial_soc_pct * E_nom) \div 100

\* C11: an MPC run with windows H_exec <= H_opt that divide H_total solves
\* exactly H_total / H_exec iterations, one after the other, the rows of
\* iteration i + 1 following the rows of iteration i in the schedule; a call
\* with H_exec > H_opt or with H_total not a multiple of H_exec solves
\* nothing and commits nothing.
C11_MpcOrdering ==
    (/\ pc = "done"
     /\ mpc.entry \in {"optimize_12h_mpc", "optimize_mpc"}
     /\ Len(request.market_prices.day_ahead)
           = mpc.h_total * TIMESTEPS_PER_HOUR) =>
       IF mpc.h_exec <= mpc.h_opt /\ mpc.h_total % mpc.h_exec = 0
       THEN /\ Len(mpc.solves) = mpc.h_total \div mpc.h_exec
            /\ \A k \in 1..(Len(mpc.solves) - 1) :
                  mpc.solves[k + 1].window_start
                     = mpc.solves[k].window_start + mpc.h_exec
            /\ \A r \in 1..(Len(mpc.schedule) - 1) :
                  mpc.schedule[r + 1].iteration
                     \in {mpc.schedule[r].iteration,
                          mpc.schedule[r].iteration + 1}
       ELSE /\ mpc.solves = <<>>
            /\ mpc.schedule = <<>>

\* a run of the service whose solver stopped without an optimal or feasible
\* solution to return: infeasible, an error of the backend, or the time limit
\* with no incumbent
FailedSolve ==
    /\ run.kind = "solver"
    /\ run.solved.kind = "return"
    /\ run.solved.solves = 1
    /\ ~run.backend.incumbent

\* the statuses an OptimizationResult is documented to carry
DocumentedStatuses == {"optimal", "feasible", "infeasible", "timeout", "error"}

\* C12: for a solve that ended infeasible, on a backend error or on the time
\* limit with no incumbent, extract_solution and _build_result return (the
\* run reaches its result) an OptimizationResult with an empty schedule, an
\* empty soc_trajectory and a documented status that names the failure:
\* infeasible, timeout or error.
C12_FailedSolveResult ==
    (FailedSolve /\ pc = "done") =>
       /\ run.result /= NoResults
       /\ run.result.schedule = 0
       /\ run.result.soc_trajectory = 0
       /\ run.result.status \in DocumentedStatuses
       /\ run.result.status
             = (CASE run.backend.raises -> "error"
                  [] run.backend.termination = "infeasible" -> "infeasible"
                  [] run.backend.termination = "maxTimeLimit" -> "timeout"
                  [] OTHER -> "error")

\* C13: when solver.solve returns on its time limit, the result of a run
\* that held an incumbent carries the full schedule of 4 * H entries with
\* status feasible, and the result of a run that held none carries an empty
\* schedule with status timeout.
C13_TimeLimit ==
    (/\ run.kind = "solver"
     /\ pc = "done"
     /\ run.solved.kind = "return"
     /\ run.solved.solves = 1
     /\ run.backend.termination = "maxTimeLimit"
     /\ ~run.backend.raises) =>
       IF run.backend.incumbent
       THEN /\ run.result.schedule = 4 * opt_input.time_horizon_hours
            /\ run.result.status = "feasible"
       ELSE /\ run.result.schedule = 0
            /\ run.result.status = "timeout"

\* C14: every call of solve_model returns a pair whose results carry a
\* termination condition, a solve time and a solver name, whatever solvers
\* are installed, whether or not the caller names one and whatever the
\* backend does; and a call invokes solver.solve at most once.
C14_SolveModelReturns ==
    (run.kind = "solver" /\ run.solved /= NoResults) =>
       /\ run.solved.kind = "return"
       /\ {"termination_condition", "_solve_time", "_solver_name"}
             \subseteq DOMAIN run.solved.results
       /\ run.solved.solves <= 1

\* len(market_prices[key]), 0 for a key the request lacks
PriceCount(key) ==
    IF key \in DOMAIN request.market_prices
    THEN Len(request.market_prices[key]) ELSE 0

\* a required key is missing or empty, a 15-minute array is not of length
\* 4 * H, or a block-price array is not of length H / 4
Malformed ==
    \/ \E key \in {"day_ahead", "afrr_energy_pos", "afrr_energy_neg"} :
          PriceCount(key) /= TIMESTEPS_PER_HOUR * request.time_horizon_hours
    \/ \E key \in {"fcr", "afrr_capacity_pos", "afrr_capacity_neg"} :
          \/ PriceCount(key) = 0
          \/ PriceCount(key) * TIMESTEPS_PER_BLOCK
                /= TIMESTEPS_PER_HOUR * request.time_horizon_hours

\* the adapter has raised ValueError and has made no table
RejectedAsInvalid ==
    /\ pc = "done"
    /\ opt_input = Raised("ValueError") \/ country_data = Raised("ValueError")
    /\ model = NoModel

C16_HorizonRejected ==
    (/\ request.time_horizon_hours * TIMESTEPS_PER_HOUR < TIMESTEPS_PER_BLOCK
     /\ pc \notin {"request", "input"}) => RejectedAsInvalid

\* the solver has returned a solution for all steps of the model
Solved == pc = "solve" /\ model.T > 0 /\ t + 1 = model.T

C19_SocAfter ==
    AtStep =>
       /\ soc_after(sol.e_soc, opt_input) = ClampedFraction(sol.e_soc, E_nom)
       /\ E_nom = opt_input.battery_capacity_kwh * EnergyScale

\* C20: in the result, cyclic_aging_cost is the model's cost_cyclic,
\* calendar_aging_cost is the model's calendar cost (the sum of
\* c_cal_cost[t] * dt) for Models III and III-renew and 0 for Models I and
\* II, degradation_cost is their sum and net_profit is objective_value less
\* degradation_cost.
C20_ResultCosts ==
    Solved =>
       LET r == result_money(extract_money(totals))
       IN  /\ r.cyclic_aging_cost = totals.cost_cyclic
           /\ r.calendar_aging_cost
                 = (IF model.variant \in {"III", "III-renew"}
                    THEN totals.cost_calendar ELSE ZeroMoney)
           /\ r.degradation_cost
                 = Plus(r.cyclic_aging_cost, r.calendar_aging_cost)
           /\ r.net_profit = Minus(objective_value(totals), r.degradation_cost)

\* C18: a Model I run on prices that are all zero has objective_value 0,
\* and e_soc[t] = E_soc_init at every step of the solution returned, which
\* neither charges nor discharges.
C18_ZeroPricesIdle ==
    (/\ AtStep
     /\ model.variant = "I"
     /\ request.market_prices = ZeroPrices(MaxTimesteps)) =>
       /\ objective_value(totals) = ZeroMoney
       /\ sol.e_soc = model.E_soc_init
       /\ sol.p_total_ch = 0
       /\ sol.p_total_dis = 0

C18_ZeroPricesObjective ==
    [][(/\ model.variant = "I"
        /\ request.market_prices = ZeroPrices(MaxTimesteps)
        /\ t' = t + 1) =>
          /\ objective_value(totals') = ZeroMoney
          /\ (sol'.p_total_ch = 0 /\ sol'.p_total_dis = 0) =>
                sol'.e_soc = (IF t = -1 THEN model.E_soc_init ELSE sol.e_soc)]_vars

\* a step of such a run that charges, the objective at 0
C18_Witness ==
    /\ AtStep
    /\ model.variant = "I"
    /\ request.market_prices = ZeroPrices(MaxTimesteps)
    /\ sol.p_total_ch > 0
    /\ sol.e_soc > model.E_soc_init
    /\ objective_value(totals) = ZeroMoney

C28_CrossMarketExclusivity ==
    [][(pc = "solve" /\ t' = t + 1) =>
          /\ blk'.c_fcr > 0 =>
                /\ sol'.p_total_ch = 0 /\ sol'.p_total_dis = 0
                /\ sol'.e_soc = (IF t' = 0 THEN model.E_soc_init
                                 ELSE sol.e_soc)
          /\ blk'.c_afrr_pos > 0 =>
                /\ sol'.p_total_ch = 0
                /\ sol'.p_ch = 0 /\ sol'.p_afrr_neg_e = 0
          /\ blk'.c_afrr_neg > 0 =>
                /\ sol'.p_total_dis = 0
                /\ sol'.p_dis = 0 /\ sol'.p_afrr_pos_e = 0]_vars

\* the second step of a block with an FCR bid, after a first step that left
\* the state of charge where it started
C28_Witness ==
    /\ AtStep
    /\ t >= 1
    /\ blk.c_fcr > 0
    /\ sol.e_soc = model.E_soc_init

\* C30: in Model I built with a daily cycle limit N, every feasible solution
\* keeps the total discharge throughput of each day, the sum over the day's
\* steps of p_total_dis / eta_dis * dt (day-ahead discharge plus aFRR+
\* energy), at or below N * E_nom.
C30_DailyThroughput ==
    (AtStep /\ model.variant = "I" /\ model.N_cycles.kind /= "none") =>
        model.N_cycles.val.den * DischargeDrain * day_dis.p_total_dis
            <= model.N_cycles.val.num * E_nom

\* the initial fill of the segments, and the least activation it allows:
\* a segment is active when it holds energy
InitialFill == [j \in J |-> initial_segment_soc(j)]
InitialActive == [j \in J |-> IF InitialFill[j] > 0 THEN 1 ELSE 0]

\* the initial fill of Model II is top-down and fits the rules of the segments
TopDownFill ==
    /\ \A j \in J :
          /\ InitialFill[j]
                = Min(E_seg, Max(0, model.E_soc_init - (j - 1) * E_seg))
          /\ e_soc_j_bounds(InitialFill, j)
          /\ stacked_tank_rule(InitialFill, j)
          /\ segment_activation_upper_rule(InitialFill, InitialActive, j)
          /\ segment_lifo_fullness_rule(InitialFill, InitialActive, j)
    /\ SumSeq(InitialFill) = model.E_soc_init

\* C26: in Model II the top-down initial fill gives segment j the value
\* min(E_seg, max(0, E_soc_init - (j - 1) * E_seg)); these values sum to
\* E_soc_init and satisfy the stacked-tank and LIFO rules, and at every step
\* the sum of the segments obeys the recurrence of Model I on the total
\* powers, with E_soc_init before the first step.
C26_TopDownFill ==
    [][(pc' = "solve" /\ model'.variant /= "I") =>
          /\ TopDownFill'
          /\ t' = t + 1 =>
                /\ sol'.e_soc = SumSeq(sol'.e_soc_j)
                /\ sol'.e_soc
                      = (IF t' = 0 THEN model.E_soc_init ELSE sol.e_soc)
                        + (ChargeGain * sol'.p_total_ch
                           - DischargeDrain * sol'.p_total_dis)]_vars

\* Model II starting half full: the upper segment full and the lower one
\* empty before the first step, and a discharge at a later step
C26_Witness ==
    /\ AtStep
    /\ model.variant = "II"
    /\ InitialFill = <<E_seg, 0>>
    /\ t >= 1
    /\ sol.p_total_dis > 0

\* the constraints of Model I other than Cst-5 on the values s of row i in
\* block b, after a step whose state of charge was e_soc_prev
ModelIConstraints(i, e_soc_prev, s, b) ==
    /\ no_bid_if_no_afrr_pos_activation_rule(i, s.p_afrr_pos_e)
    /\ no_bid_if_no_afrr_neg_activation_rule(i, s.p_afrr_neg_e)
    /\ total_ch_def_rule(s.p_total_ch, s.p_ch, s.p_afrr_neg_e)
    /\ total_dis_def_rule(s.p_total_dis, s.p_dis, s.p_afrr_pos_e)
    /\ s.e_soc = soc_dynamics_rule(i, e_soc_prev, s.p_total_ch, s.p_total_dis)
    /\ e_soc_bounds(s.e_soc)
    /\ total_ch_binary_rule(s.p_total_ch, s.y_total_ch)
    /\ total_dis_binary_rule(s.p_total_dis, s.y_total_dis)
    /\ no_simultaneous_rule(s.y_total_ch, s.y_total_dis)
    /\ power_dis_reserve_limit_rule(s.p_total_dis, b)
    /\ power_ch_reserve_limit_rule(s.p_total_ch, b)
    /\ energy_reserve_pos_rule(s.e_soc, b)
    /\ energy_reserve_neg_rule(s.e_soc, b)
    /\ cross_market_exclusivity_rule_1(s.y_total_dis, b)
    /\ cross_market_exclusivity_rule_2(s.y_total_ch, b)
    /\ b \in BlockChoices

\* the constraints Model II adds, on the values s after segments e_soc_j_prev
ModelIIConstraints(i, e_soc_j_prev, s, b) ==
    /\ [p_ch_j |-> s.p_ch_j, p_dis_j |-> s.p_dis_j,
        z_segment_active |-> s.z_segment_active]
          \in SegmentSide(i, e_soc_j_prev, s.p_total_ch, s.p_total_dis)
    /\ s.e_soc_j = SegmentSoc(i, e_soc_j_prev, s.p_ch_j, s.p_dis_j)
    /\ s.e_soc = SumSeq(s.e_soc_j)
    /\ energy_reserve_pos_rule_v2(s.e_soc, b)
    /\ energy_reserve_neg_rule_v2(s.e_soc, b)

\* the constraints of Model III-Renew on the renewable variables of row i,
\* for a table with forecast f, met with p_renewable_self = 0
RenewConstraints(i, f, s) ==
    /\ total_ch_def_renew_rule(s.p_total_ch, s.p_ch, s.p_afrr_neg_e, 0)
    /\ \E p_export \in PowerGrid, p_curtail \in PowerGrid :
          0 + p_export + p_curtail
              = (IF f.kind = "none" THEN 0 ELSE PriceOrZero(f.val[i]))

\* what holds of a step of Model II or III whatever the daily cycle limit
AdditiveStep ==
    (pc = "solve" /\ t' = t + 1) =>
       /\ model.variant \in {"II", "III"} =>
             ModelIConstraints(t' + 1, sol.e_soc, sol', blk')
       /\ model.variant = "III" =>
             /\ ModelIIConstraints(t' + 1, sol.e_soc_j, sol', blk')
             /\ \A f \in GenerationForecasts :
                   RenewConstraints(t' + 1, f, sol')

\* C27: the variants are strictly additive: for the same table, c_rate and
\* daily_cycle_limit, every feasible solution of Model II restricted to the
\* variables of Model I satisfies every constraint of Model I, every
\* feasible solution of Model III satisfies every constraint of Model II,
\* and every feasible solution of Model III is a feasible solution of
\* Model III-Renew with p_self = 0.
C27_StrictlyAdditive ==
    [][/\ AdditiveStep
       /\ (pc = "solve" /\ t' = t + 1 /\ model.variant \in {"II", "III"}) =>
             daily_cycle_rule(request.daily_cycle_limit.val,
                              day_dis'.p_dis)]_vars

\* C27 (amended): every feasible solution of Model II restricted to the
\* variables of Model I satisfies every constraint of Model I other than
\* the daily cycle limit (Cst-5), which Models II and III do not build;
\* every feasible solution of Model III satisfies every constraint of
\* Model II and is a feasible solution of Model III-Renew with p_self = 0.
C27_AdditiveButCycleLimit == [][AdditiveStep]_vars

\* a step of Model III that charges, on a day whose discharge so far is
\* more than Model I would have let through
C27_Witness ==
    /\ AtStep
    /\ model.variant = "III"
    /\ sol.p_total_ch > 0
    /\ ~ daily_cycle_rule(request.daily_cycle_limit.val, day_dis.p_dis)

\* the capacity reserved in the current block
Reserved(b) == b.c_fcr + b.c_afrr_pos + b.c_afrr_neg

\* C29: with max_as_ratio < 1 every feasible solution has, in every block,
\* c_fcr + c_afrr_pos + c_afrr_neg <= max_as_ratio * P_max; so when
\* max_as_ratio * P_max is below the minimum bid of 1.0 MW (the 4500 kWh
\* battery at c_rate 0.25 with ratio 0.8: 0.9 MW) all three bids are 0 in
\* every block; with max_as_ratio = 1.0 no such cap is imposed: a bid of
\* the whole rating is among the choices of a block.
C29_ReservationCap ==
    AtStep =>
       /\ model.max_as_ratio.num < model.max_as_ratio.den =>
             /\ model.max_as_ratio.den * Reserved(blk)
                   <= model.max_as_ratio.num * P_max_config
             /\ model.max_as_ratio.num * P_max_config
                   < model.max_as_ratio.den * Min(min_bid_fcr, min_bid_afrr)
                => /\ blk.c_fcr = 0 /\ blk.c_afrr_pos = 0 /\ blk.c_afrr_neg = 0
       /\ model.max_as_ratio.num = model.max_as_ratio.den =>
             \E b \in BlockChoices : Reserved(b) = P_max_config

\* the battery at c_rate 0.25 under the default ratio: it discharges, and
\* bids nothing
C29_Witness ==
    /\ AtStep
    /\ request.c_rate = QuarterRate
    /\ optimizer.max_as_ratio = None
    /\ MaxAsRatioNum * P_max_config < MaxAsRatioDen * min_bid_fcr
    /\ sol.p_total_dis > 0
    /\ Reserved(blk) = 0

\* C23: across any sequence of optimize calls on one OptimizerService, the
\* optimizer memoized under (model_type, alpha) is read-only: build, solve
\* and extract change none of its attributes, every call constructs a new
\* model, and the result of a call depends only on the arguments of that
\* call: no call changes an attribute that build reads.
C23_ReadOnlyOptimizer ==
    [][/\ pc \in {"table", "solve"} =>
             /\ battery_params' = battery_params
             /\ optimizer' = optimizer
       /\ (pc = "table" /\ pc' = "solve") => model = NoModel
       /\ battery_params'.initial_soc_pct = battery_params.initial_soc_pct
       /\ optimizer'.max_as_ratio = optimizer.max_as_ratio]_vars

\* the call has been turned down with an input error, and no model built
RejectedBeforeBuild ==
    /\ \E error \in {"ValueError", "ValidationError"} :
          opt_input = Raised(error)
    /\ model = NoModel

\* C21: for every model type a request with alpha < 0, or with c_rate <= 0
\* or c_rate > 2, is rejected with an input error raised before any model
\* is built or solved; an unknown model type is rejected the same way.
C21_ParametersRejected ==
    (/\ pc /= "request"
     /\ \/ request.alpha < 0
        \/ request.c_rate.num <= 0
        \/ request.c_rate.num > 2 * request.c_rate.den
        \/ request.model_type \notin ModelTypes)
       => RejectedBeforeBuild

\* C22: constructing a Model III optimizer fails with an input error when
\* the calendar SOC breakpoints are not strictly increasing, when any
\* breakpoint cost is negative, or when the breakpoints do not span
\* [0, E_nom] (first /= 0 or last /= E_nom); a cost sequence that is not
\* monotone is accepted, with a warning only.
C22_CalendarBreakpoints ==
    run.kind = "constructor" =>
       LET soc == optimizer.calendar_params.soc_breakpoints_kwh
           cost == optimizer.calendar_params.cost_breakpoints_eur_hr
           n == optimizer.calendar_params.num_breakpoints
           malformed ==
              \/ \E i \in 2..n : soc[i] <= soc[i - 1]
              \/ \E i \in 1..n : cost[i] < 0
              \/ soc[1] /= 0
              \/ soc[n] /= capacity_kwh
       IN  /\ malformed => run.error = "ValueError" /\ pc = "done"
           /\ ~ malformed =>
                 /\ run.error = "" /\ pc = "constructed"
                 /\ (\E i \in 2..n : cost[i] < cost[i - 1])
                       => "cost" \in run.warnings

\* C24: the schedule of a successful result has one entry for each of the
\* 4 * H steps, 15 minutes apart; the action of a step is discharge with
\* power p_dis[t] when p_dis[t] > 1e-3 kW, otherwise charge with power
\* p_ch[t] when p_ch[t] > 1e-3 kW, otherwise idle with power 0; and
\* renewable_action is null or names the destination the renewable power
\* of the step goes to (self_consume, export or curtail).
C24_ScheduleEntries ==
    AtStep =>
       LET entry == schedule_entry(t, sol)
       IN  /\ model.T = 4 * opt_input.time_horizon_hours
           /\ entry.timestamp = 15 * t
           /\ sol.p_dis > 0 =>
                 entry.action = "discharge" /\ entry.power_kw = sol.p_dis
           /\ (sol.p_dis = 0 /\ sol.p_ch > 0) =>
                 entry.action = "charge" /\ entry.power_kw = sol.p_ch
           /\ (sol.p_dis = 0 /\ sol.p_ch = 0) =>
                 entry.action = "idle" /\ entry.power_kw = 0
           /\ \/ entry.renewable_action = None
              \/ /\ entry.renewable_action = Some("self_consume")
                 /\ sol.p_renewable_self > 0
              \/ /\ entry.renewable_action = Some("export")
                 /\ sol.p_renewable_export > 0
              \/ /\ entry.renewable_action = Some("curtail")
                 /\ sol.p_renewable_curtail > 0

====
